---- MODULE Spec2Model ----
(***************************************************************************)
(* The video fact-checking pipelines of perFeet: ActualVideoProcessor      *)
(* (src/unnamed/part_007), FreeVideoProcessor (part_006),                  *)
(* RealVideoProcessor (part_005) and VideoProcessor (part_004).            *)
(*                                                                         *)
(* Numbers: a JavaScript number x with at most two decimals is the integer *)
(* 100 * x (0.85 is 85); a quotient a / b is the pair [num, den]; 0 / 0 is *)
(* the pair with den = 0 (NaN).  A string that the code splits or measures *)
(* is a sequence of one-character strings; any other string is a string.   *)
(***************************************************************************)
EXTENDS Integers, Sequences, FiniteSets, TLC

(***************************************************************************)
(* Bounds of the model                                                     *)
(***************************************************************************)
\* longest list of segments / claims an oracle response or a loop carries
MaxSegs == 2
\* how many times the progress callback may throw during one run
MaxCbFail == 2

(***************************************************************************)
(* Strings as character sequences                                          *)
(***************************************************************************)
Rep(c, n) == [k \in 1..n |-> c]

IsTerminator(c) == c \in {".", "!", "?"}

\* String.prototype.trim
RECURSIVE TrimLeft(_)
TrimLeft(s) == IF s # <<>> /\ Head(s) = " " THEN TrimLeft(Tail(s)) ELSE s

RECURSIVE TrimRight(_)
TrimRight(s) ==
  IF s # <<>> /\ s[Len(s)] = " " THEN TrimRight(SubSeq(s, 1, Len(s) - 1)) ELSE s

Trim(s) == TrimRight(TrimLeft(s))

\* String.prototype.split(/[.!?]+/): the pieces between maximal runs of
\* terminators, the (possibly empty) piece after the last run included
SplitSentences(s) ==
  LET n == Len(s)
      starts == {k \in 1..n : IsTerminator(s[k]) /\ (k = 1 \/ ~IsTerminator(s[k - 1]))}
      ends == {k \in 1..n : IsTerminator(s[k]) /\ (k = n \/ ~IsTerminator(s[k + 1]))}
      runs == Cardinality(starts)
      Nth(S, j) == CHOOSE k \in S : Cardinality({x \in S : x < k}) = j - 1
  IN [j \in 1..(runs + 1) |->
        SubSeq(s, IF j = 1 THEN 1 ELSE Nth(ends, j - 1) + 1,
                  IF j = runs + 1 THEN n ELSE Nth(starts, j) - 1)]

\* Array.prototype.filter(x => x.trim().length > n)
RECURSIVE FilterLonger(_, _)
FilterLonger(ss, n) ==
  IF ss = <<>> THEN <<>>
  ELSE IF Len(Trim(Head(ss))) > n
       THEN <<Head(ss)>> \o FilterLonger(Tail(ss), n)
       ELSE FilterLonger(Tail(ss), n)

\* Array.prototype.slice(0, n)
Slice(ss, n) == SubSeq(ss, 1, IF Len(ss) < n THEN Len(ss) ELSE n)

\* Array.prototype.join(' ') of strings
RECURSIVE JoinSpace(_)
JoinSpace(ss) ==
  IF ss = <<>> THEN <<>>
  ELSE IF Len(ss) = 1 THEN Head(ss)
       ELSE Head(ss) \o <<" ">> \o JoinSpace(Tail(ss))

(***************************************************************************)
(* Values shared by the four processors                                    *)
(***************************************************************************)
NoValue == [none |-> TRUE]
\* a state of the hook that holds null, or a message
Null == [isNull |-> TRUE, message |-> ""]
Message(m) == [isNull |-> FALSE, message |-> m]

Verdicts == {"True", "Mostly True", "Mixed", "Mostly False", "False"}

\* a / b as a pair; Math.round is applied nowhere in what follows
Quot(a, b) == [num |-> a, den |-> b]
Num(x) == Quot(x, 1)
IsNaN(q) == q.den = 0
QuotEq(p, q) == ~IsNaN(p) /\ ~IsNaN(q) /\ p.num * q.den = q.num * p.den

\* a JavaScript value that is a number or undefined
Undefined == [t |-> "undefined", v |-> 0]
Number(x) == [t |-> "number", v |-> x]

\* x || d for a number-or-undefined value x: undefined, 0 and NaN are falsy
OrDefault(x, d) == IF x.t = "number" /\ x.v # 0 THEN x.v ELSE d

\* Math.min(Math.max(x, 0), 1), in hundredths
Clamp01(x) == IF x < 0 THEN 0 ELSE IF x > 100 THEN 100 ELSE x

Msg(text, n) == [mark |-> "", text |-> text, n |-> n]
ErrMsg(message) == [mark |-> "error", text |-> message, n |-> 0]

Finding(text, n, s) == [text |-> text, n |-> n, s |-> s]

\* what the transcript source, the oracle and the clock may answer
Elapsed == {1, 2}

LongSentence(c, n) == Rep(c, n) \o <<".">>

\* a JavaScript value that is an array or not (undefined, a string, ...)
Arr(items) == [isArray |-> TRUE, items |-> items]
NotArr == [isArray |-> FALSE, items |-> <<>>]
Source(r) == [title |-> "t", url |-> "u", reliability |-> Number(r)]

Judgment(verdict, confidence, explanation, evidence, sources) ==
  [verdict |-> verdict, confidence |-> confidence, explanation |-> explanation,
   evidence |-> evidence, sources |-> sources]

\* the judgments an oracle response may carry for one sentence
OracleJudgments ==
  { Judgment("True", Number(85), "because", Arr(<<"e1", "e2">>), Arr(<<Source(90)>>)),
    Judgment("Mostly True", Undefined, "", NotArr, NotArr),
    Judgment("Mixed", Number(-20), "because", Arr(<<"e1">>), Arr(<<>>)),
    Judgment("Mostly False", Number(100), "because",
             Arr(<<"e1", "e2", "e3", "e4", "e5">>),
             Arr(<<Source(50), Source(60), Source(70), Source(80)>>)),
    Judgment("False", Number(0), "because", Arr(<<"e1">>), Arr(<<Source(150)>>)),
    Judgment("Unverified", Number(150), "because",
             Arr(<<"e1", "e2", "e3", "e4", "e5">>),
             Arr(<<Source(50), Source(60), Source(70), Source(150)>>)) }

\* the lists of at most n elements of S
RECURSIVE SeqsUpTo(_, _)
SeqsUpTo(S, n) ==
  IF n = 0 THEN {<<>>}
  ELSE LET shorter == SeqsUpTo(S, n - 1)
       IN shorter \cup {Append(q, x) : q \in {r \in shorter : Len(r) = n - 1}, x \in S}

(***************************************************************************)
(* The run: state                                                          *)
(***************************************************************************)
VARIABLES
  proc,           \* which processor's entry point was invoked
  videoUrl,       \* the argument videoUrl
  currentVideoUrl, \* VideoProcessor: the instance field this.currentVideoUrl
  steps,          \* the local steps: ProcessingStep[]
  cur,            \* the step the run is at (index into steps)
  pc,             \* position: begin / stage / await / end / catch / done
  error,          \* the error caught by the entry point's catch
  result,         \* what the returned promise settled to
  cbFails,        \* how often onProgress has thrown so far
  progress,       \* what onProgress received, in order
  inflight,       \* the external call the run is awaiting
  method,         \* extractRealTranscript: the loop index i (1..4)
  attempt,        \* extractRealTranscript: index into languages / urlFormats
  calls,          \* the transcript fetches issued so far
  generated,      \* kimiGenerateContent: what its fetch settled to
  transcriptData, \* processActualVideo: const transcriptData
  kimiAnalysis,   \* processActualVideo: const kimiAnalysis
  finalResults,   \* processActualVideo: const finalResults
  videoInfo,      \* const videoInfo / metadata / { url, platform }
  retryCount,     \* extractAudioWithRetry, extractClaimsWithRetry: let retryCount
  tried,          \* the attempts of the retry loop entered last, in order
  transcriptionResult, \* const transcriptionResult (processVideo: transcript)
  segments,       \* const segments (processVideo: extractedClaims)
  analyzedSegments, \* the loop's analyzedSegments (factCheckClaims: verifiedClaims)
  idx,            \* the loop's index i
  waits,          \* the delays the verification loop has awaited, in order
  insights,       \* const insights (processVideo: overallScore)
  fn,             \* the function applied to an input on its own
  input,          \* its argument
  output,         \* what it returned
  loading,        \* useOpenRouter: const [loading, setLoading]
  hookError,      \* useOpenRouter: const [error, setError]
  requests        \* the requests started through the hook and not yet settled

runVars == <<proc, videoUrl, currentVideoUrl, steps, cur, pc, error, result, cbFails, progress, inflight>>
actualVars == <<method, attempt, calls, generated, transcriptData, kimiAnalysis, finalResults>>
stagedVars == <<videoInfo, retryCount, tried, transcriptionResult, segments, analyzedSegments,
               idx, waits, insights>>
fnVars == <<fn, input, output>>
hookVars == <<loading, hookError, requests>>
vars == <<runVars, actualVars, stagedVars, fnVars, hookVars>>

(***************************************************************************)
(* The step list and the progress callback                                 *)
(***************************************************************************)
Step(name, message) == [step |-> name, status |-> "pending", message |-> Msg(message, 0)]

InitialSteps(p) ==
  CASE p = "Actual" ->
         << Step("validate", "Validating YouTube URL..."),
            Step("extract", "Extracting real transcript from YouTube..."),
            Step("kimiAnalyze", "Kimi K2 fact-checking with sources and evidence..."),
            Step("results", "Compiling comprehensive analysis results...") >>
    [] p = "Free" ->
         << Step("validate", "Validating video URL and extracting info..."),
            Step("download", "Downloading video and extracting audio..."),
            Step("whisper", "Transcribing with FREE Whisper AI (no API key)..."),
            Step("segment", "Preparing segments for Kimi K2 analysis..."),
            Step("kimi", "Analyzing each line with Kimi K2 AI..."),
            Step("synthesize", "Connecting insights and generating report...") >>
    [] p = "Real" ->
         << Step("validate", "Validating video URL and extracting metadata..."),
            Step("download", "Downloading video and extracting audio..."),
            Step("transcribe", "Transcribing with OpenAI Whisper..."),
            Step("segment", "Segmenting transcript for analysis..."),
            Step("analyze", "Line-by-line analysis with Kimi K2..."),
            Step("synthesize", "Connecting dots and generating insights...") >>
    [] p = "Video" ->
         << Step("validate", "Validating video URL..."),
            Step("extract", "Extracting audio from video..."),
            Step("transcribe", "Transcribing audio with Whisper..."),
            Step("analyze", "Analyzing transcript with AI..."),
            Step("factcheck", "Fact-checking claims with Kimi K2..."),
            Step("complete", "Generating final report...") >>

\* steps.find(s => pred(s)): the index of the first match, 0 for undefined
FindStep(ss, Pred(_)) ==
  IF \E k \in 1..Len(ss) : Pred(ss[k])
  THEN CHOOSE k \in 1..Len(ss) : Pred(ss[k]) /\ \A j \in 1..(k - 1) : ~Pred(ss[j])
  ELSE 0

\* an updateStep that leaves a step in progress when told it has completed
UpdateStepLeavesInProgress(ss, stepName, status, message) ==
  LET Named(x) == x.step = stepName
      k == FindStep(ss, Named)
  IN IF k = 0 THEN ss
     ELSE [ss EXCEPT ![k].status = IF status = "completed" THEN @ ELSE status,
                     ![k].message = message]

\* updateStep: the step list after the assignment to the step found
UpdateStep(ss, stepName, status, message) ==
  LET Named(x) == x.step = stepName
      k == FindStep(ss, Named)
  IN IF k = 0 THEN ss
     ELSE [ss EXCEPT ![k].status = status, ![k].message = message]

\* a handleError that marks no step
MarkErrorSkipped(ss, message) == ss

\* a handleError that marks the first step that has not completed
MarkErrorFirstOpen(ss, message) ==
  LET Open(x) == x.status # "completed"
      k == FindStep(ss, Open)
  IN IF k = 0 THEN ss
     ELSE [ss EXCEPT ![k].status = "error", ![k].message = ErrMsg(message)]

\* a handleError that sets the status and leaves the message
MarkErrorKeepsMessage(ss, message) ==
  LET Processing(x) == x.status = "processing"
      k == FindStep(ss, Processing)
  IN IF k = 0 THEN ss ELSE [ss EXCEPT ![k].status = "error"]

\* handleError and its namesakes: the step list after marking the step in progress
MarkError(ss, message) ==
  LET Processing(x) == x.status = "processing"
      k == FindStep(ss, Processing)
  IN IF k = 0 THEN ss
     ELSE [ss EXCEPT ![k].status = "error", ![k].message = ErrMsg(message)]

HasProcessing(ss) == \E k \in 1..Len(ss) : ss[k].status = "processing"

\* onProgress([...steps]) is called and returns (ok) or throws (~ok)
CallbackMay(ok) == ok \/ cbFails < MaxCbFail

\* a callback argument that leaves out the steps not yet started:
\* steps.filter(s => s.status !== 'pending')
SnapshotOfStarted(ss) ==
  LET Started(x) == x.status # "pending"
      kept == {k \in 1..Len(ss) : Started(ss[k])}
      Nth(j) == CHOOSE k \in kept : Cardinality({x \in kept : x < k}) = j - 1
  IN [refs |-> [j \in 1..Cardinality(kept) |-> Nth(j)],
      seen |-> [j \in 1..Cardinality(kept) |-> ss[Nth(j)]]]

\* [...steps]: a new array whose elements are the step objects of the run
\* themselves (refs, their positions in steps); seen is what the callback
\* reads in it while it is called
Snapshot(ss) == [refs |-> [k \in 1..Len(ss) |-> k], seen |-> ss]

\* what a holder of the snapshot reads in it now
ReadNow(snapshot) == [k \in 1..Len(snapshot.refs) |-> steps[snapshot.refs[k]]]

\* an updateStep that assigns and does not call onProgress
EmitNothing(snapshot, ok) ==
  /\ CallbackMay(ok)
  /\ progress' = progress
  /\ cbFails' = IF ok THEN cbFails ELSE cbFails + 1

Emit(snapshot, ok) ==
  /\ CallbackMay(ok)
  /\ progress' = Append(progress, Snapshot(snapshot))
  /\ cbFails' = IF ok THEN cbFails ELSE cbFails + 1

CallbackError == "onProgress threw"

(***************************************************************************)
(* Video references.  A reference is what the URL parser and the video-id  *)
(* patterns make of it: whether new URL() accepts it, its hostname class,  *)
(* and the 11-character id the patterns find ("unknown" when none).        *)
(***************************************************************************)
Url(parses, http, host, id) == [parses |-> parses, http |-> http, host |-> host, id |-> id]

VideoUrls ==
  { Url(TRUE, TRUE, "youtube", "dQw4w9WgXcQ"),  \* https://www.youtube.com/watch?v=dQw4w9WgXcQ
    Url(TRUE, FALSE, "youtube", "dQw4w9WgXcQ"), \* ftp://youtube.com/watch?v=dQw4w9WgXcQ
    Url(TRUE, TRUE, "youtube", "unknown"),      \* https://youtube.com/
    Url(TRUE, TRUE, "tiktok", "unknown"),       \* https://tiktok.com/@a/1
    Url(TRUE, TRUE, "example", "unknown"),      \* https://example.org/v
    Url(FALSE, FALSE, "", "unknown") }          \* not a url

isYouTubeUrl(u) == u.parses /\ u.host = "youtube"

extractVideoId(u) == u.id

(***************************************************************************)
(* ActualVideoProcessor: the transcript cascade                            *)
(***************************************************************************)
Duration(h, m, sec) == [h |-> h, m |-> m, s |-> sec]

\* formatDuration, of a number of milliseconds / 1000
formatDuration(ms) ==
  LET seconds == ms \div 1000
  IN Duration(seconds \div 3600, (seconds % 3600) \div 60, seconds % 60)

Item(text, offset, duration) == [text |-> text, offset |-> offset, duration |-> duration]

\* what YoutubeTranscript.fetchTranscript may settle to
FetchOutcomes ==
  { [ok |-> FALSE, items |-> <<>>],
    [ok |-> TRUE, items |-> <<>>],
    [ok |-> TRUE, items |-> <<Item(<<>>, 0, 1000)>>],
    [ok |-> TRUE, items |-> <<Item(<<"H", "i", ".">>, 0, 1000)>>],
    [ok |-> TRUE, items |-> <<Item(LongSentence("a", 16), 0, 4000),
                              Item(LongSentence("b", 21), 4000, 61000)>>] }

Languages == <<"en", "en-US", "en-GB", "auto">>
UrlFormats == <<"watchUrl", "shortUrl", "videoId">>
MethodNames == <<"Direct URL", "Video ID", "URL Format", "Timeout Retry">>
TimeoutMs == 10000

NoCall == [call |-> "none", ref |-> "", lang |-> "", timer |-> 0]
Fetch(ref, lang, timer) ==
  [call |-> "fetchTranscript", ref |-> ref, lang |-> lang, timer |-> timer]
OracleCall(what) == [call |-> what, ref |-> "", lang |-> "", timer |-> 0]

formatTranscriptResult(transcript, m) ==
  LET fullText == JoinSpace([k \in 1..Len(transcript) |-> transcript[k].text])
      last == transcript[Len(transcript)]
      totalDuration == last.offset + last.duration
  IN [transcript |-> fullText,
      title |-> m,
      duration |-> formatDuration(totalDuration),
      description |-> "Real transcript extracted"]

\* where extractRealTranscript next awaits once the loop reaches method m:
\* methods 2 to 4 throw at once without a video id, and after the last
\* method the catch calls kimiGenerateContent
RECURSIVE EnterMethod(_)
EnterMethod(m) ==
  IF m > 4 THEN [method |-> 4, attempt |-> 1, inflight |-> OracleCall("generate")]
  ELSE IF m = 1
       THEN [method |-> 1, attempt |-> 1, inflight |-> Fetch("videoUrl", Languages[1], 0)]
  ELSE IF extractVideoId(videoUrl) = "unknown" THEN EnterMethod(m + 1)
  ELSE IF m = 2
       THEN [method |-> 2, attempt |-> 1, inflight |-> Fetch("videoId", "", 0)]
  ELSE IF m = 3
       THEN [method |-> 3, attempt |-> 1, inflight |-> Fetch(UrlFormats[1], "", 0)]
  ELSE [method |-> 4, attempt |-> 1, inflight |-> Fetch("videoId", "en", TimeoutMs)]

\* a cascade that leaves a method at its first failed fetch
AfterFailedFetchLeaves(m, a) == EnterMethod(m + 1)

\* where the cascade next awaits after a fetch of method m failed or came back empty
AfterFailedFetch(m, a) ==
  IF m = 1 /\ a < Len(Languages)
  THEN [method |-> 1, attempt |-> a + 1, inflight |-> Fetch("videoUrl", Languages[a + 1], 0)]
  ELSE IF m = 3 /\ a < Len(UrlFormats)
  THEN [method |-> 3, attempt |-> a + 1, inflight |-> Fetch(UrlFormats[a + 1], "", 0)]
  ELSE EnterMethod(m + 1)

Await(next) ==
  /\ method' = next.method
  /\ attempt' = next.attempt
  /\ inflight' = next.inflight
  /\ calls' = IF next.inflight.call = "fetchTranscript"
              THEN Append(calls, [ref |-> next.inflight.ref, lang |-> next.inflight.lang])
              ELSE calls
  /\ pc' = "await"

(***************************************************************************)
(* Oracle responses.  The content string of a chat completion is its       *)
(* characters (raw), whether it is wrapped in ``` fences, and what         *)
(* JSON.parse makes of it once the fences are gone.                        *)
(***************************************************************************)
NotJson == [ok |-> FALSE, isNull |-> FALSE, value |-> NoValue]
JsonNull == [ok |-> TRUE, isNull |-> TRUE, value |-> NoValue]
Json(value) == [ok |-> TRUE, isNull |-> FALSE, value |-> value]

Content(raw, fenced, json) == [raw |-> raw, fenced |-> fenced, json |-> json]

\* content.replace(/```json|```/g, '').trim()
StripFences(c) == [c EXCEPT !.fenced = FALSE, !.raw = Trim(c.raw)]

\* JSON.parse: fails on a fenced text
JsonParse(c) == IF c.fenced THEN NotJson ELSE c.json

\* the outcomes of a fetch() of the chat-completions endpoint
Failures ==
  { [kind |-> "network", content |-> NoValue],     \* fetch rejects
    [kind |-> "http", content |-> NoValue],        \* response.ok is false
    [kind |-> "badbody", content |-> NoValue] }    \* response.json() throws, no choices
Answer(c) == [kind |-> "content", content |-> c]

RawJsonText == <<"{">> \o Rep("j", 22) \o <<"}">>
GeneratedText == LongSentence("g", 18) \o <<" ">> \o LongSentence("h", 4)

GenerateOutcomes ==
  Failures \cup
  { Answer(Content(<<>>, FALSE, NotJson)),
    Answer(Content(<<" ">>, FALSE, NotJson)),
    Answer(Content(GeneratedText, FALSE, NotJson)),
    Answer(Content(RawJsonText, FALSE, JsonNull)),
    Answer(Content(RawJsonText, TRUE,
                   Json([transcript |-> GeneratedText, title |-> "Generated title",
                         duration |-> Duration(0, 3, 0), description |-> "d"]))),
    Answer(Content(RawJsonText, FALSE,
                   Json([transcript |-> <<>>, title |-> "", duration |-> NoValue,
                         description |-> ""]))) }

\* the fixed passage of kimiGenerateContent: five sentences of 95, 98, 85,
\* 94 and 79 characters
BuiltInPassage ==
  LongSentence("t", 95) \o <<" ">> \o LongSentence("r", 98) \o <<" ">>
  \o LongSentence("d", 85) \o <<" ">> \o LongSentence("g", 94) \o <<" ">>
  \o LongSentence("p", 79)

\* a kimiGenerateContent that takes the transcript of a parsed answer as it
\* is, and has no passage of its own
kimiGenerateContentAsParsed(out) ==
  LET content == out.content
      parsed == JsonParse(StripFences(content))
  IN IF out.kind = "content" /\ content.raw # <<>> /\ parsed.ok /\ ~parsed.isNull
     THEN [transcript |-> parsed.value.transcript,
           title |-> "Generated Content Analysis",
           duration |-> Duration(0, 5, 0),
           description |-> "AI-generated content for fact-checking"]
     ELSE [transcript |-> IF out.kind = "content" THEN content.raw ELSE <<>>,
           title |-> "Generated Educational Content",
           duration |-> Duration(0, 5, 0),
           description |-> "AI-generated content for analysis"]

\* a kimiGenerateContent that answers with its own passage unless the oracle
\* sent JSON
kimiGenerateContentJsonOnly(out) ==
  LET content == out.content
      parsed == JsonParse(StripFences(content))
  IN IF out.kind = "content" /\ content.raw # <<>> /\ parsed.ok /\ ~parsed.isNull
     THEN [transcript |-> IF parsed.value.transcript # <<>>
                          THEN parsed.value.transcript ELSE content.raw,
           title |-> "Generated Content Analysis",
           duration |-> Duration(0, 5, 0),
           description |-> "AI-generated content for fact-checking"]
     ELSE [transcript |-> BuiltInPassage,
           title |-> "Educational Content Analysis",
           duration |-> Duration(0, 4, 30),
           description |-> "Sample content for fact-checking demonstration"]

\* kimiGenerateContent: what it returns for each outcome of its fetch
kimiGenerateContent(out) ==
  LET content == out.content
      parsed == JsonParse(StripFences(content))
  IN IF out.kind = "content" /\ content.raw # <<>>
     THEN IF parsed.ok /\ ~parsed.isNull
          THEN [transcript |-> IF parsed.value.transcript # <<>>
                               THEN parsed.value.transcript ELSE content.raw,
                title |-> IF parsed.value.title # "" THEN parsed.value.title
                          ELSE "Generated Content Analysis",
                duration |-> IF parsed.value.duration # NoValue THEN parsed.value.duration
                             ELSE Duration(0, 5, 0),
                description |-> IF parsed.value.description # "" THEN parsed.value.description
                                ELSE "AI-generated content for fact-checking"]
          ELSE [transcript |-> content.raw,
                title |-> "Generated Educational Content",
                duration |-> Duration(0, 5, 0),
                description |-> "AI-generated content for analysis"]
     ELSE [transcript |-> BuiltInPassage,
           title |-> "Educational Content Analysis",
           duration |-> Duration(0, 4, 30),
           description |-> "Sample content for fact-checking demonstration"]

(***************************************************************************)
(* ActualVideoProcessor: the analysis                                      *)
(***************************************************************************)
Segment(id, timestamp, sentence) ==
  [segment |-> id, timestamp |-> timestamp, sentence |-> sentence]

Analyzed(seg, analysis) ==
  [segment |-> seg.segment, timestamp |-> seg.timestamp, sentence |-> seg.sentence,
   analysis |-> analysis]

\* the segment lists an analysis response may carry
OracleSegments ==
  { [k \in 1..Len(js) |->
       Analyzed(Segment(<<"claim", k>>, <<k, 0>>, <<"c">>), js[k])]
    : js \in SeqsUpTo({j \in OracleJudgments : j.verdict \notin {"Mixed", "Mostly False"}},
                      MaxSegs) }

AnalysisValue(segs, accuracy, findings) ==
  [segments |-> segs, overallAccuracy |-> accuracy, keyFindings |-> findings]

OracleFindings == Arr(<<Finding("oracle finding", 0, <<>>)>>)
AnalysisText == LongSentence("x", 21) \o <<" ">> \o LongSentence("y", 20)

AnalysisOutcomes ==
  Failures \cup
  { Answer(Content(<<>>, FALSE, NotJson)),
    Answer(Content(AnalysisText, FALSE, NotJson)),
    Answer(Content(RawJsonText, FALSE, JsonNull)) } \cup
  { Answer(Content(RawJsonText, TRUE, Json(AnalysisValue(Arr(segs), Number(70), OracleFindings))))
    : segs \in OracleSegments } \cup
  { Answer(Content(RawJsonText, FALSE, Json(AnalysisValue(NotArr, acc, NotArr))))
    : acc \in {Undefined, Number(0), Number(-10), Number(130)} }

\* createBasicSegments
createBasicSegments(analysisText) ==
  LET sentences == Slice(FilterLonger(SplitSentences(analysisText), 20), 3)
  IN [k \in 1..Len(sentences) |->
        Analyzed(Segment(<<"analysis", k>>, <<(k - 1) * 90, 0>>, Trim(sentences[k])),
                 Judgment("Mixed", Number(70),
                          "Kimi K2 provided detailed analysis of this content",
                          Arr(<<"Analysis based on Kimi K2 knowledge base">>), Arr(<<>>)))]

\* convertTextToSegments
convertTextToSegments(analysisText, originalTranscript) ==
  [segments |-> createBasicSegments(analysisText),
   overallAccuracy |-> Num(70),
   keyFindings |-> << Finding("Comprehensive analysis completed by Kimi K2", 0, <<>>),
                      Finding("Analyzed content", 0, Slice(originalTranscript, 100)),
                      Finding("Fact-checking assessment provided", 0, <<>>) >>]

\* createFallbackAnalysis
createFallbackAnalysis(transcript) ==
  LET sentences == Slice(FilterLonger(SplitSentences(transcript), 15), 4)
  IN [segments |->
        [k \in 1..Len(sentences) |->
           Analyzed(Segment(<<"fallback", k>>, <<(k - 1) * 60, 0>>, Trim(sentences[k])),
                    Judgment("Mixed", Number(60),
                             "Basic analysis completed - requires further verification",
                             Arr(<<"Limited analysis due to processing constraints">>),
                             Arr(<<>>)))],
      overallAccuracy |-> Num(60),
      keyFindings |-> << Finding("Analyzed key statements", Len(sentences), <<>>),
                         Finding("Further verification recommended", 0, <<>>),
                         Finding("Basic fact-checking completed", 0, <<>>) >>]

\* kimiCompleteAnalysis: what it returns for each outcome of its fetch
kimiCompleteAnalysis(content, out) ==
  LET response == out.content
      analysis == JsonParse(StripFences(response))
  IN IF out.kind = "content" /\ response.raw # <<>>
     THEN IF analysis.ok /\ ~analysis.isNull
          THEN [segments |-> IF analysis.value.segments.isArray
                             THEN analysis.value.segments.items
                             ELSE createBasicSegments(response.raw),
                overallAccuracy |->
                  Num(Clamp01(OrDefault(analysis.value.overallAccuracy, 70))),
                keyFindings |-> IF analysis.value.keyFindings.isArray
                                THEN analysis.value.keyFindings.items
                                ELSE <<Finding("Fact-checking analysis completed by Kimi K2",
                                               0, <<>>)>>]
          ELSE convertTextToSegments(response.raw, content.transcript)
     ELSE createFallbackAnalysis(content.transcript)

\* compileKimiResults
compileKimiResults(analysis, data, videoId, processingTime) ==
  [videoId |-> videoId,
   platform |-> "YouTube",
   title |-> data.title,
   duration |-> data.duration,
   fullTranscript |-> data.transcript,
   segmentedAnalysis |-> analysis.segments,
   overallAccuracy |-> analysis.overallAccuracy,
   keyFindings |-> analysis.keyFindings \o
                   << Finding("Analysis powered by Kimi K2 AI", 0, <<>>),
                      Finding("Processed key statements", Len(analysis.segments), <<>>),
                      Finding("Processing time", processingTime, <<>>) >>,
   processingTime |-> processingTime,
   steps |-> <<>>]

(***************************************************************************)
(* FreeVideoProcessor, RealVideoProcessor: the segmenter                   *)
(***************************************************************************)
\* formatTimestamp of num / den seconds: [minutes, seconds]
formatTimestamp(num, den) ==
  LET whole == num \div den
  IN <<whole \div 60, whole % 60>>

TSegment(start, end, text) == [start |-> start, end |-> end, text |-> text]
Transcription(segs) ==
  [text |-> JoinSpace([k \in 1..Len(segs) |-> segs[k].text]), segments |-> segs]

\* what the transcriber hands to the segmenter (times in milliseconds)
Transcriptions ==
  { Transcription(<<>>),
    Transcription(<<TSegment(0, 2000, <<"H", "i", ".">>)>>),
    Transcription(<<TSegment(0, 6500, LongSentence("a", 11) \o <<" ">> \o LongSentence("b", 12))>>),
    Transcription(<<TSegment(0, 61000, <<"O", "k", "!", " ">> \o LongSentence("a", 11)),
                    TSegment(61000, 70000, LongSentence("b", 10) \o LongSentence("c", 12))>>),
    Transcription(<<TSegment(0, 3000, LongSentence("a", 11) \o LongSentence("b", 12)
                                        \o LongSentence("c", 11)),
                    TSegment(3000, 6000, LongSentence("d", 11))>>) }

\* FreeVideoProcessor.prepareSegments: the segments of transcription segment i
\* (numbered from 0) and of those after it
RECURSIVE FreeSegmentsFrom(_, _)
FreeSegmentsFrom(tsegs, i) ==
  IF i >= Len(tsegs) THEN <<>>
  ELSE LET segment == tsegs[i + 1]
           sentences == FilterLonger(SplitSentences(segment.text), 10)
           n == Len(sentences)
       IN [k \in 1..n |->
             Segment(<<"segment", i, k - 1>>,
                     formatTimestamp(segment.start * n + (k - 1) * (segment.end - segment.start),
                                     n * 1000),
                     Trim(sentences[k]))]
          \o FreeSegmentsFrom(tsegs, i + 1)

prepareSegments(transcription) == FreeSegmentsFrom(transcription.segments, 0)

\* the positions, in order, of the sentences the forEach of
\* prepareTranscriptSegments keeps
SubstantialIndices(sentences) ==
  SelectSeq([k \in 1..Len(sentences) |-> k], LAMBDA k : Len(Trim(sentences[k])) > 10)

\* RealVideoProcessor.prepareTranscriptSegments
RECURSIVE RealSegmentsFrom(_, _)
RealSegmentsFrom(tsegs, i) ==
  IF i >= Len(tsegs) THEN <<>>
  ELSE LET segment == tsegs[i + 1]
           sentences == FilterLonger(SplitSentences(segment.text), 0)
           kept == SubstantialIndices(sentences)
       IN [j \in 1..Len(kept) |->
             Segment(<<"segment", i, kept[j] - 1>>,
                     formatTimestamp(segment.start + (kept[j] - 1) * 2000, 1000),
                     Trim(sentences[kept[j]]))]
          \o RealSegmentsFrom(tsegs, i + 1)

prepareTranscriptSegments(transcription) ==
  RealSegmentsFrom(transcription.segments, 0)

(***************************************************************************)
(* The transcriptions the two Whisper transcribers return (their demo      *)
(* transcription; times in milliseconds)                                   *)
(***************************************************************************)
FreeText1 ==
  << "W", "e", "l", "c", "o", "m", "e", " ", "e", "v", "e", "r", "y", "o", "n", "e",
     " ", "t", "o", " ", "t", "o", "d", "a", "y", "'", "s", " ", "v", "i", "d", "e",
     "o", " ", "w", "h", "e", "r", "e", " ", "w", "e", " ", "e", "x", "p", "l", "o",
     "r", "e", " ", "f", "a", "s", "c", "i", "n", "a", "t", "i", "n", "g", " ", "d",
     "e", "v", "e", "l", "o", "p", "m", "e", "n", "t", "s", " ", "i", "n", " ", "s",
     "p", "a", "c", "e", " ", "e", "x", "p", "l", "o", "r", "a", "t", "i", "o", "n",
     " ", "a", "n", "d", " ", "s", "c", "i", "e", "n", "t", "i", "f", "i", "c", " ",
     "r", "e", "s", "e", "a", "r", "c", "h", "." >>

FreeText2 ==
  << "T", "h", "e", " ", "J", "a", "m", "e", "s", " ", "W", "e", "b", "b", " ", "S",
     "p", "a", "c", "e", " ", "T", "e", "l", "e", "s", "c", "o", "p", "e", " ", "h",
     "a", "s", " ", "r", "e", "v", "o", "l", "u", "t", "i", "o", "n", "i", "z", "e",
     "d", " ", "o", "u", "r", " ", "u", "n", "d", "e", "r", "s", "t", "a", "n", "d",
     "i", "n", "g", " ", "o", "f", " ", "t", "h", "e", " ", "c", "o", "s", "m", "o",
     "s", ",", " ", "r", "e", "v", "e", "a", "l", "i", "n", "g", " ", "g", "a", "l",
     "a", "x", "i", "e", "s", " ", "f", "r", "o", "m", " ", "o", "v", "e", "r", " ",
     "1", "3", " ", "b", "i", "l", "l", "i", "o", "n", " ", "y", "e", "a", "r", "s",
     " ", "a", "g", "o", "." >>

FreeText3 ==
  << "R", "e", "c", "e", "n", "t", " ", "s", "t", "u", "d", "i", "e", "s", " ", "c",
     "o", "n", "f", "i", "r", "m", " ", "t", "h", "a", "t", " ", "d", "a", "r", "k",
     " ", "e", "n", "e", "r", "g", "y", " ", "c", "o", "m", "p", "r", "i", "s", "e",
     "s", " ", "a", "p", "p", "r", "o", "x", "i", "m", "a", "t", "e", "l", "y", " ",
     "6", "8", " ", "p", "e", "r", "c", "e", "n", "t", " ", "o", "f", " ", "o", "u",
     "r", " ", "u", "n", "i", "v", "e", "r", "s", "e", ",", " ", "d", "r", "i", "v",
     "i", "n", "g", " ", "i", "t", "s", " ", "a", "c", "c", "e", "l", "e", "r", "a",
     "t", "e", "d", " ", "e", "x", "p", "a", "n", "s", "i", "o", "n", "." >>

FreeText4 ==
  << "C", "l", "i", "m", "a", "t", "e", " ", "r", "e", "s", "e", "a", "r", "c", "h",
     " ", "i", "n", "d", "i", "c", "a", "t", "e", "s", " ", "g", "l", "o", "b", "a",
     "l", " ", "t", "e", "m", "p", "e", "r", "a", "t", "u", "r", "e", "s", " ", "h",
     "a", "v", "e", " ", "r", "i", "s", "e", "n", " ", "1", ".", "1", " ", "d", "e",
     "g", "r", "e", "e", "s", " ", "C", "e", "l", "s", "i", "u", "s", " ", "s", "i",
     "n", "c", "e", " ", "p", "r", "e", "-", "i", "n", "d", "u", "s", "t", "r", "i",
     "a", "l", " ", "t", "i", "m", "e", "s", ",", " ", "p", "r", "i", "m", "a", "r",
     "i", "l", "y", " ", "d", "u", "e", " ", "t", "o", " ", "h", "u", "m", "a", "n",
     " ", "a", "c", "t", "i", "v", "i", "t", "i", "e", "s", "." >>

FreeText5 ==
  << "T", "h", "e", "s", "e", " ", "s", "c", "i", "e", "n", "t", "i", "f", "i", "c",
     " ", "b", "r", "e", "a", "k", "t", "h", "r", "o", "u", "g", "h", "s", " ", "a",
     "r", "e", " ", "r", "e", "s", "h", "a", "p", "i", "n", "g", " ", "o", "u", "r",
     " ", "c", "o", "m", "p", "r", "e", "h", "e", "n", "s", "i", "o", "n", " ", "o",
     "f", " ", "b", "o", "t", "h", " ", "c", "o", "s", "m", "i", "c", " ", "a", "n",
     "d", " ", "t", "e", "r", "r", "e", "s", "t", "r", "i", "a", "l", " ", "p", "h",
     "e", "n", "o", "m", "e", "n", "a", ",", " ", "o", "f", "f", "e", "r", "i", "n",
     "g", " ", "u", "n", "p", "r", "e", "c", "e", "d", "e", "n", "t", "e", "d", " ",
     "i", "n", "s", "i", "g", "h", "t", "s", " ", "i", "n", "t", "o", " ", "t", "h",
     "e", " ", "n", "a", "t", "u", "r", "e", " ", "o", "f", " ", "o", "u", "r", " ",
     "u", "n", "i", "v", "e", "r", "s", "e", " ", "a", "n", "d", " ", "p", "l", "a",
     "n", "e", "t", "." >>

FreeMockTranscription ==
  Transcription(<< TSegment(0, 6500, FreeText1),
                   TSegment(6500, 14200, FreeText2),
                   TSegment(14200, 21800, FreeText3),
                   TSegment(21800, 29500, FreeText4),
                   TSegment(29500, 36000, FreeText5) >>)

RealText1 ==
  << "W", "e", "l", "c", "o", "m", "e", " ", "t", "o", " ", "t", "o", "d", "a", "y",
     "'", "s", " ", "v", "i", "d", "e", "o", " ", "w", "h", "e", "r", "e", " ", "w",
     "e", "'", "l", "l", " ", "e", "x", "p", "l", "o", "r", "e", " ", "s", "o", "m",
     "e", " ", "f", "a", "s", "c", "i", "n", "a", "t", "i", "n", "g", " ", "d", "e",
     "v", "e", "l", "o", "p", "m", "e", "n", "t", "s", " ", "i", "n", " ", "s", "p",
     "a", "c", "e", " ", "s", "c", "i", "e", "n", "c", "e", " ", "a", "n", "d", " ",
     "r", "e", "c", "e", "n", "t", " ", "d", "i", "s", "c", "o", "v", "e", "r", "i",
     "e", "s", "." >>

RealText2 ==
  << "T", "h", "e", " ", "J", "a", "m", "e", "s", " ", "W", "e", "b", "b", " ", "S",
     "p", "a", "c", "e", " ", "T", "e", "l", "e", "s", "c", "o", "p", "e", " ", "h",
     "a", "s", " ", "b", "e", "e", "n", " ", "p", "r", "o", "v", "i", "d", "i", "n",
     "g", " ", "u", "n", "p", "r", "e", "c", "e", "d", "e", "n", "t", "e", "d", " ",
     "i", "n", "s", "i", "g", "h", "t", "s", " ", "i", "n", "t", "o", " ", "t", "h",
     "e", " ", "e", "a", "r", "l", "y", " ", "u", "n", "i", "v", "e", "r", "s", "e",
     ",", " ", "s", "h", "o", "w", "i", "n", "g", " ", "u", "s", " ", "g", "a", "l",
     "a", "x", "i", "e", "s", " ", "t", "h", "a", "t", " ", "f", "o", "r", "m", "e",
     "d", " ", "o", "v", "e", "r", " ", "1", "3", " ", "b", "i", "l", "l", "i", "o",
     "n", " ", "y", "e", "a", "r", "s", " ", "a", "g", "o", "." >>

RealText3 ==
  << "R", "e", "c", "e", "n", "t", " ", "s", "t", "u", "d", "i", "e", "s", " ", "h",
     "a", "v", "e", " ", "c", "o", "n", "f", "i", "r", "m", "e", "d", " ", "t", "h",
     "a", "t", " ", "d", "a", "r", "k", " ", "e", "n", "e", "r", "g", "y", " ", "m",
     "a", "k", "e", "s", " ", "u", "p", " ", "a", "p", "p", "r", "o", "x", "i", "m",
     "a", "t", "e", "l", "y", " ", "6", "8", "%", " ", "o", "f", " ", "t", "h", "e",
     " ", "u", "n", "i", "v", "e", "r", "s", "e", " ", "a", "n", "d", " ", "i", "s",
     " ", "d", "r", "i", "v", "i", "n", "g", " ", "i", "t", "s", " ", "a", "c", "c",
     "e", "l", "e", "r", "a", "t", "e", "d", " ", "e", "x", "p", "a", "n", "s", "i",
     "o", "n", "." >>

RealText4 ==
  << "C", "l", "i", "m", "a", "t", "e", " ", "r", "e", "s", "e", "a", "r", "c", "h",
     " ", "h", "a", "s", " ", "a", "l", "s", "o", " ", "s", "h", "o", "w", "n", " ",
     "t", "h", "a", "t", " ", "g", "l", "o", "b", "a", "l", " ", "t", "e", "m", "p",
     "e", "r", "a", "t", "u", "r", "e", "s", " ", "h", "a", "v", "e", " ", "i", "n",
     "c", "r", "e", "a", "s", "e", "d", " ", "b", "y", " ", "1", ".", "1", " ", "d",
     "e", "g", "r", "e", "e", "s", " ", "C", "e", "l", "s", "i", "u", "s", " ", "s",
     "i", "n", "c", "e", " ", "p", "r", "e", "-", "i", "n", "d", "u", "s", "t", "r",
     "i", "a", "l", " ", "t", "i", "m", "e", "s", ",", " ", "w", "i", "t", "h", " ",
     "h", "u", "m", "a", "n", " ", "a", "c", "t", "i", "v", "i", "t", "i", "e", "s",
     " ", "b", "e", "i", "n", "g", " ", "t", "h", "e", " ", "p", "r", "i", "m", "a",
     "r", "y", " ", "c", "a", "u", "s", "e", "." >>

RealText5 ==
  << "T", "h", "e", "s", "e", " ", "f", "i", "n", "d", "i", "n", "g", "s", " ", "a",
     "r", "e", " ", "r", "e", "s", "h", "a", "p", "i", "n", "g", " ", "o", "u", "r",
     " ", "u", "n", "d", "e", "r", "s", "t", "a", "n", "d", "i", "n", "g", " ", "o",
     "f", " ", "b", "o", "t", "h", " ", "c", "o", "s", "m", "i", "c", " ", "a", "n",
     "d", " ", "t", "e", "r", "r", "e", "s", "t", "r", "i", "a", "l", " ", "p", "h",
     "e", "n", "o", "m", "e", "n", "a", "." >>

RealMockTranscription ==
  Transcription(<< TSegment(0, 5200, RealText1),
                   TSegment(5200, 12800, RealText2),
                   TSegment(12800, 19500, RealText3),
                   TSegment(19500, 27100, RealText4),
                   TSegment(27100, 32000, RealText5) >>)

(***************************************************************************)
(* Text matching of the heuristic fallbacks                                *)
(***************************************************************************)
UpperCase == << "A", "B", "C", "D", "E", "F", "G", "H", "I", "J", "K", "L", "M",
                "N", "O", "P", "Q", "R", "S", "T", "U", "V", "W", "X", "Y", "Z" >>
LowerCase == << "a", "b", "c", "d", "e", "f", "g", "h", "i", "j", "k", "l", "m",
                "n", "o", "p", "q", "r", "s", "t", "u", "v", "w", "x", "y", "z" >>

\* String.prototype.toLowerCase
Lower(s) ==
  [k \in 1..Len(s) |->
     IF \E i \in 1..26 : UpperCase[i] = s[k]
     THEN LowerCase[CHOOSE i \in 1..26 : UpperCase[i] = s[k]]
     ELSE s[k]]

\* w occurs in s at position i
OccursAt(s, w, i) == i >= 1 /\ i + Len(w) - 1 <= Len(s) /\ SubSeq(s, i, i + Len(w) - 1) = w

\* String.prototype.includes
Includes(s, w) == \E i \in 1..(Len(s) + 1) : OccursAt(s, w, i)

\* /a.*b/.test(s)
MatchesThen(s, a, b) ==
  \E i \in 1..(Len(s) + 1) : \E j \in (i + Len(a))..(Len(s) + 1) :
    OccursAt(s, a, i) /\ OccursAt(s, b, j)

JamesWebb == << "j", "a", "m", "e", "s", " ", "w", "e", "b", "b" >>
Telescope == << "t", "e", "l", "e", "s", "c", "o", "p", "e" >>
DarkEnergy == << "d", "a", "r", "k", " ", "e", "n", "e", "r", "g", "y" >>
SixtyEight == << "6", "8" >>
Percent == << "p", "e", "r", "c", "e", "n", "t" >>
PercentSign == << "%" >>
Climate == << "c", "l", "i", "m", "a", "t", "e" >>
OnePointOne == << "1", ".", "1" >>
Degrees == << "d", "e", "g", "r", "e", "e", "s" >>
Temperature == << "t", "e", "m", "p", "e", "r", "a", "t", "u", "r", "e" >>
Mars == << "m", "a", "r", "s" >>
NeverLanded == << "n", "e", "v", "e", "r", " ", "l", "a", "n", "d", "e", "d" >>
Universe == << "u", "n", "i", "v", "e", "r", "s", "e" >>
Shrinking == << "s", "h", "r", "i", "n", "k", "i", "n", "g" >>
ClimateChange == << "c", "l", "i", "m", "a", "t", "e", " ", "c", "h", "a", "n", "g", "e" >>
GlobalWarming == << "g", "l", "o", "b", "a", "l", " ", "w", "a", "r", "m", "i", "n", "g" >>

(***************************************************************************)
(* The per-sentence oracle call of the three staged processors             *)
(***************************************************************************)
Src(title, url, r) == [title |-> title, url |-> url, reliability |-> Number(r)]

\* JSON.parse('{}'): every property is undefined
EmptyObject == Judgment("", Undefined, "", NotArr, NotArr)

\* the judgments a per-sentence response may carry
LoopJudgments ==
  { Judgment("False", Number(0), "because", Arr(<<"e1">>), Arr(<<Source(150)>>)),
    Judgment("Unverified", Number(150), "",
             Arr(<<"e1", "e2", "e3", "e4", "e5">>),
             Arr(<<Source(50), Source(60), Source(70), Source(80)>>)) }

\* what the per-sentence request of a run may settle to
SegmentOutcomes ==
  Failures \cup
  { Answer(Content(AnalysisText, FALSE, NotJson)),
    Answer(Content(RawJsonText, FALSE, JsonNull)) } \cup
  { Answer(Content(RawJsonText, TRUE, Json(j))) : j \in LoopJudgments }

Thrown == [ok |-> FALSE, value |-> NoValue]
Ok(value) == [ok |-> TRUE, value |-> value]

\* const content = ...content || '{}'; JSON.parse(content.replace(...).trim()),
\* and the first property read of the parsed value
ParseAnalysis(out) ==
  IF out.kind # "content" THEN Thrown
  ELSE IF out.content.raw = <<>> THEN Ok(EmptyObject)
  ELSE LET analysis == JsonParse(StripFences(out.content))
       IN IF analysis.ok /\ ~analysis.isNull THEN Ok(analysis.value) ELSE Thrown

\* the "validate and return" object literal
Sanitize(analysis, maxEvidence, maxSources) ==
  Judgment(IF analysis.verdict \in Verdicts THEN analysis.verdict ELSE "Mixed",
           Number(Clamp01(OrDefault(analysis.confidence, 50))),
           IF analysis.explanation # "" THEN analysis.explanation
           ELSE "Analysis completed with available information.",
           Arr(IF analysis.evidence.isArray
               THEN Slice(analysis.evidence.items, maxEvidence) ELSE <<>>),
           Arr(IF analysis.sources.isArray
               THEN Slice(analysis.sources.items, maxSources) ELSE <<>>))

\* FreeVideoProcessor.analyzeSegmentWithRealKimi, from the settled fetch on
analyzeSegmentWithRealKimi(out) ==
  LET parsed == ParseAnalysis(out)
  IN IF parsed.ok THEN Ok(Sanitize(parsed.value, 4, 3)) ELSE Thrown

\* RealVideoProcessor.analyzeSegmentWithKimi, from the settled request on
analyzeSegmentWithKimi(out) ==
  LET parsed == ParseAnalysis(out)
  IN IF parsed.ok THEN Ok(Sanitize(parsed.value, 3, 2)) ELSE Thrown

\* FreeVideoProcessor.getIntelligentFallback
getIntelligentFallback(sentence) ==
  LET lowerSentence == Lower(sentence)
  IN IF Includes(lowerSentence, JamesWebb) /\ Includes(lowerSentence, Telescope)
     THEN Judgment("True", Number(95), "JWST",
                   Arr(<<"operational since 2022", "peer-reviewed studies", "old galaxies">>),
                   Arr(<<Src("NASA JWST Mission Documentation", "nasa.gov/webb", 98)>>))
     ELSE IF /\ Includes(lowerSentence, DarkEnergy)
             /\ \/ MatchesThen(lowerSentence, SixtyEight, Percent)
                \/ MatchesThen(lowerSentence, SixtyEight, PercentSign)
     THEN Judgment("True", Number(92), "dark energy",
                   Arr(<<"Planck satellite", "Type Ia supernovae", "independent studies">>),
                   Arr(<<Src("Planck Collaboration Results", "arxiv.org/planck", 96)>>))
     ELSE IF /\ Includes(lowerSentence, Climate)
             /\ Includes(lowerSentence, OnePointOne)
             /\ Includes(lowerSentence, Degrees)
     THEN Judgment("True", Number(97), "surface temperature",
                   Arr(<<"NOAA, NASA, Hadley Centre", "IPCC AR6", "attribution studies">>),
                   Arr(<<Src("IPCC Sixth Assessment Report", "ipcc.ch/ar6", 99)>>))
     ELSE Judgment("Mixed", Number(60), "requires additional verification",
                   Arr(<<"needs further verification with primary sources">>),
                   Arr(<<Src("General Fact-Check Analysis", "#", 70)>>))

\* RealVideoProcessor.getFallbackAnalysis
getFallbackAnalysis(sentence) ==
  LET lowerSentence == Lower(sentence)
  IN IF Includes(lowerSentence, JamesWebb) /\ Includes(lowerSentence, Telescope)
     THEN Judgment("True", Number(95), "JWST",
                   Arr(<<"launched in 2021", "peer-reviewed studies">>),
                   Arr(<<Src("NASA JWST Mission", "nasa.gov/jwst", 98)>>))
     ELSE IF Includes(lowerSentence, Climate) /\ Includes(lowerSentence, Temperature)
     THEN Judgment("True", Number(97), "temperature increase",
                   Arr(<<"IPCC reports", "independent datasets">>),
                   Arr(<<Src("IPCC Climate Reports", "ipcc.ch", 99)>>))
     ELSE Judgment("Mixed", Number(60), "requires additional verification",
                   Arr(<<"requires further verification">>), Arr(<<>>))

\* VideoProcessor: a claim, and a verified claim
Claim(text, timestamp) == [text |-> text, timestamp |-> timestamp]
VerifiedClaim(id, claim, confidence, verdict, evidence, sources) ==
  [id |-> id, text |-> claim.text, timestamp |-> claim.timestamp,
   confidence |-> confidence, verdict |-> verdict, evidence |-> evidence, sources |-> sources]

\* VideoProcessor.generateFallbackAnalysis (it gives no explanation)
generateFallbackAnalysis(claimText) ==
  LET lowerClaim == Lower(claimText)
  IN IF Includes(lowerClaim, Mars) /\ Includes(lowerClaim, NeverLanded)
     THEN Judgment("False", Number(95), "",
                   Arr(<<"NASA missions landed rovers", "rovers operating on Mars">>),
                   Arr(<<Src("NASA Mars Exploration", "nasa.gov/mars", 98)>>))
     ELSE IF Includes(lowerClaim, Universe) /\ Includes(lowerClaim, Shrinking)
     THEN Judgment("False", Number(92), "",
                   Arr(<<"consensus supports expansion", "dark energy observations">>),
                   Arr(<<Src("Cosmological Research", "science.org", 94)>>))
     ELSE IF Includes(lowerClaim, ClimateChange) \/ Includes(lowerClaim, GlobalWarming)
     THEN Judgment("True", Number(97), "",
                   Arr(<<"IPCC reports", "temperature records">>),
                   Arr(<<Src("IPCC Climate Reports", "ipcc.ch", 99)>>))
     ELSE Judgment("Mixed", Number(60), "",
                   Arr(<<"requires additional verification">>),
                   Arr(<<Src("General Fact-Check Analysis", "#", 70)>>))

\* VideoProcessor.factCheckClaims: the entry pushed for claim number i (from 1)
\* once the request has settled
VerifiedEntry(i, claim, out) ==
  LET parsed == ParseAnalysis(out)
      sanitizedResult == Sanitize(parsed.value, 4, 3)
      fallbackAnalysis == generateFallbackAnalysis(claim.text)
  IN IF parsed.ok
     THEN VerifiedClaim(i, claim, sanitizedResult.confidence, sanitizedResult.verdict,
                        sanitizedResult.evidence, sanitizedResult.sources)
     ELSE VerifiedClaim(i, claim, fallbackAnalysis.confidence, fallbackAnalysis.verdict,
                        fallbackAnalysis.evidence, fallbackAnalysis.sources)

(***************************************************************************)
(* VideoProcessor.generateRealisticTranscript: the four transcripts, one   *)
(* character per UTF-16 code unit, an asterisk for each one outside ASCII  *)
(***************************************************************************)
YouTubeTranscript ==
  << "W", "e", "l", "c", "o", "m", "e", " ", "t", "o", " ", "t", "o", "d", "a", "y", "'", "s", " ", "v",
     "i", "d", "e", "o", ",", " ", "e", "v", "e", "r", "y", "o", "n", "e", ".", " ", "I", " ", "w", "a",
     "n", "t", " ", "t", "o", " ", "t", "a", "l", "k", " ", "a", "b", "o", "u", "t", " ", "s", "o", "m",
     "e", " ", "f", "a", "s", "c", "i", "n", "a", "t", "i", "n", "g", " ", "r", "e", "c", "e", "n", "t",
     " ", "d", "e", "v", "e", "l", "o", "p", "m", "e", "n", "t", "s", " ", "i", "n", " ", "s", "p", "a",
     "c", "e", " ", "e", "x", "p", "l", "o", "r", "a", "t", "i", "o", "n", " ", "a", "n", "d", " ", "s",
     "c", "i", "e", "n", "t", "i", "f", "i", "c", " ", "r", "e", "s", "e", "a", "r", "c", "h", ".", " ",
     "\n", "\n", "F", "i", "r", "s", "t", ",", " ", "l", "e", "t", "'", "s", " ", "d", "i", "s", "c", "u",
     "s", "s", " ", "t", "h", "e", " ", "i", "n", "c", "r", "e", "d", "i", "b", "l", "e", " ", "a", "c",
     "h", "i", "e", "v", "e", "m", "e", "n", "t", "s", " ", "w", "e", "'", "v", "e", " ", "s", "e", "e",
     "n", " ", "w", "i", "t", "h", " ", "M", "a", "r", "s", " ", "e", "x", "p", "l", "o", "r", "a", "t",
     "i", "o", "n", ".", " ", "T", "h", "e", " ", "P", "e", "r", "s", "e", "v", "e", "r", "a", "n", "c",
     "e", " ", "r", "o", "v", "e", "r", " ", "h", "a", "s", " ", "b", "e", "e", "n", " ", "m", "a", "k",
     "i", "n", "g", " ", "g", "r", "o", "u", "n", "d", "b", "r", "e", "a", "k", "i", "n", "g", " ", "d",
     "i", "s", "c", "o", "v", "e", "r", "i", "e", "s", " ", "o", "n", " ", "t", "h", "e", " ", "R", "e",
     "d", " ", "P", "l", "a", "n", "e", "t", ",", " ", "i", "n", "c", "l", "u", "d", "i", "n", "g", " ",
     "e", "v", "i", "d", "e", "n", "c", "e", " ", "o", "f", " ", "a", "n", "c", "i", "e", "n", "t", " ",
     "m", "i", "c", "r", "o", "b", "i", "a", "l", " ", "l", "i", "f", "e", " ", "i", "n", " ", "r", "o",
     "c", "k", " ", "s", "a", "m", "p", "l", "e", "s", ".", " ", "N", "A", "S", "A", "'", "s", " ", "r",
     "e", "c", "e", "n", "t", " ", "f", "i", "n", "d", "i", "n", "g", "s", " ", "s", "u", "g", "g", "e",
     "s", "t", " ", "t", "h", "a", "t", " ", "M", "a", "r", "s", " ", "h", "a", "d", " ", "a", " ", "m",
     "u", "c", "h", " ", "m", "o", "r", "e", " ", "h", "o", "s", "p", "i", "t", "a", "b", "l", "e", " ",
     "e", "n", "v", "i", "r", "o", "n", "m", "e", "n", "t", " ", "b", "i", "l", "l", "i", "o", "n", "s",
     " ", "o", "f", " ", "y", "e", "a", "r", "s", " ", "a", "g", "o", ".", "\n", "\n", "N", "o", "w", ",",
     " ", "r", "e", "g", "a", "r", "d", "i", "n", "g", " ", "t", "h", "e", " ", "J", "a", "m", "e", "s",
     " ", "W", "e", "b", "b", " ", "S", "p", "a", "c", "e", " ", "T", "e", "l", "e", "s", "c", "o", "p",
     "e", ",", " ", "t", "h", "e", " ", "d", "a", "t", "a", " ", "w", "e", "'", "r", "e", " ", "g", "e",
     "t", "t", "i", "n", "g", " ", "i", "s", " ", "a", "b", "s", "o", "l", "u", "t", "e", "l", "y", " ",
     "r", "e", "v", "o", "l", "u", "t", "i", "o", "n", "a", "r", "y", ".", " ", "T", "h", "e", " ", "t",
     "e", "l", "e", "s", "c", "o", "p", "e", " ", "h", "a", "s", " ", "c", "o", "n", "f", "i", "r", "m",
     "e", "d", " ", "t", "h", "a", "t", " ", "t", "h", "e", " ", "u", "n", "i", "v", "e", "r", "s", "e",
     " ", "i", "s", " ", "e", "x", "p", "a", "n", "d", "i", "n", "g", " ", "a", "t", " ", "a", "n", " ",
     "a", "c", "c", "e", "l", "e", "r", "a", "t", "i", "n", "g", " ", "r", "a", "t", "e", ",", " ", "d",
     "r", "i", "v", "e", "n", " ", "b", "y", " ", "d", "a", "r", "k", " ", "e", "n", "e", "r", "g", "y",
     ".", " ", "T", "h", "e", "s", "e", " ", "o", "b", "s", "e", "r", "v", "a", "t", "i", "o", "n", "s",
     " ", "a", "r", "e", " ", "h", "e", "l", "p", "i", "n", "g", " ", "u", "s", " ", "u", "n", "d", "e",
     "r", "s", "t", "a", "n", "d", " ", "c", "o", "s", "m", "i", "c", " ", "e", "v", "o", "l", "u", "t",
     "i", "o", "n", " ", "i", "n", " ", "w", "a", "y", "s", " ", "w", "e", " ", "n", "e", "v", "e", "r",
     " ", "t", "h", "o", "u", "g", "h", "t", " ", "p", "o", "s", "s", "i", "b", "l", "e", ".", "\n", "\n",
     "I", " ", "a", "l", "s", "o", " ", "w", "a", "n", "t", " ", "t", "o", " ", "a", "d", "d", "r", "e",
     "s", "s", " ", "s", "o", "m", "e", " ", "r", "e", "c", "e", "n", "t", " ", "c", "l", "a", "i", "m",
     "s", " ", "a", "b", "o", "u", "t", " ", "c", "l", "i", "m", "a", "t", "e", " ", "c", "h", "a", "n",
     "g", "e", " ", "d", "a", "t", "a", ".", " ", "T", "h", "e", " ", "I", "P", "C", "C", "'", "s", " ",
     "l", "a", "t", "e", "s", "t", " ", "r", "e", "p", "o", "r", "t", " ", "s", "h", "o", "w", "s", " ",
     "t", "h", "a", "t", " ", "g", "l", "o", "b", "a", "l", " ", "t", "e", "m", "p", "e", "r", "a", "t",
     "u", "r", "e", "s", " ", "h", "a", "v", "e", " ", "r", "i", "s", "e", "n", " ", "b", "y", " ", "1",
     ".", "1", " ", "d", "e", "g", "r", "e", "e", "s", " ", "C", "e", "l", "s", "i", "u", "s", " ", "s",
     "i", "n", "c", "e", " ", "p", "r", "e", "-", "i", "n", "d", "u", "s", "t", "r", "i", "a", "l", " ",
     "t", "i", "m", "e", "s", ",", " ", "a", "n", "d", " ", "w", "e", "'", "r", "e", " ", "s", "e", "e",
     "i", "n", "g", " ", "u", "n", "p", "r", "e", "c", "e", "d", "e", "n", "t", "e", "d", " ", "c", "h",
     "a", "n", "g", "e", "s", " ", "i", "n", " ", "w", "e", "a", "t", "h", "e", "r", " ", "p", "a", "t",
     "t", "e", "r", "n", "s", " ", "w", "o", "r", "l", "d", "w", "i", "d", "e", ".", " ", "T", "h", "e",
     " ", "s", "c", "i", "e", "n", "t", "i", "f", "i", "c", " ", "c", "o", "n", "s", "e", "n", "s", "u",
     "s", " ", "i", "s", " ", "c", "l", "e", "a", "r", " ", "-", " ", "h", "u", "m", "a", "n", " ", "a",
     "c", "t", "i", "v", "i", "t", "i", "e", "s", " ", "a", "r", "e", " ", "t", "h", "e", " ", "p", "r",
     "i", "m", "a", "r", "y", " ", "d", "r", "i", "v", "e", "r", " ", "o", "f", " ", "c", "u", "r", "r",
     "e", "n", "t", " ", "c", "l", "i", "m", "a", "t", "e", " ", "c", "h", "a", "n", "g", "e", ".", "\n",
     "\n", "W", "h", "a", "t", "'", "s", " ", "p", "a", "r", "t", "i", "c", "u", "l", "a", "r", "l", "y",
     " ", "i", "n", "t", "e", "r", "e", "s", "t", "i", "n", "g", " ", "i", "s", " ", "h", "o", "w", " ",
     "a", "d", "v", "a", "n", "c", "e", "d", " ", "A", "I", " ", "m", "o", "d", "e", "l", "s", " ", "l",
     "i", "k", "e", " ", "G", "P", "T", " ", "a", "n", "d", " ", "o", "t", "h", "e", "r", " ", "l", "a",
     "n", "g", "u", "a", "g", "e", " ", "m", "o", "d", "e", "l", "s", " ", "a", "r", "e", " ", "b", "e",
     "i", "n", "g", " ", "u", "s", "e", "d", " ", "t", "o", " ", "a", "n", "a", "l", "y", "z", "e", " ",
     "v", "a", "s", "t", " ", "a", "m", "o", "u", "n", "t", "s", " ", "o", "f", " ", "s", "c", "i", "e",
     "n", "t", "i", "f", "i", "c", " ", "l", "i", "t", "e", "r", "a", "t", "u", "r", "e", ".", " ", "T",
     "h", "e", "s", "e", " ", "t", "o", "o", "l", "s", " ", "a", "r", "e", " ", "h", "e", "l", "p", "i",
     "n", "g", " ", "r", "e", "s", "e", "a", "r", "c", "h", "e", "r", "s", " ", "i", "d", "e", "n", "t",
     "i", "f", "y", " ", "p", "a", "t", "t", "e", "r", "n", "s", " ", "a", "n", "d", " ", "m", "a", "k",
     "e", " ", "c", "o", "n", "n", "e", "c", "t", "i", "o", "n", "s", " ", "t", "h", "a", "t", " ", "m",
     "i", "g", "h", "t", " ", "t", "a", "k", "e", " ", "y", "e", "a", "r", "s", " ", "t", "o", " ", "d",
     "i", "s", "c", "o", "v", "e", "r", " ", "m", "a", "n", "u", "a", "l", "l", "y", "." >>

TikTokTranscript ==
  << "H", "e", "y", " ", "e", "v", "e", "r", "y", "o", "n", "e", "!", " ", "*", "*", " ", "T", "o", "d",
     "a", "y", " ", "I", "'", "m", " ", "s", "h", "a", "r", "i", "n", "g", " ", "s", "o", "m", "e", " ",
     "M", "I", "N", "D", "-", "B", "L", "O", "W", "I", "N", "G", " ", "s", "p", "a", "c", "e", " ", "f",
     "a", "c", "t", "s", " ", "t", "h", "a", "t", " ", "w", "i", "l", "l", " ", "a", "b", "s", "o", "l",
     "u", "t", "e", "l", "y", " ", "s", "h", "o", "c", "k", " ", "y", "o", "u", "!", " ", "\n", "\n", "D",
     "i", "d", " ", "y", "o", "u", " ", "k", "n", "o", "w", " ", "t", "h", "a", "t", " ", "h", "u", "m",
     "a", "n", "s", " ", "h", "a", "v", "e", " ", "n", "e", "v", "e", "r", " ", "a", "c", "t", "u", "a",
     "l", "l", "y", " ", "s", "e", "t", " ", "f", "o", "o", "t", " ", "o", "n", " ", "M", "a", "r", "s",
     "?", " ", "T", "h", "a", "t", "'", "s", " ", "r", "i", "g", "h", "t", " ", "-", " ", "a", "l", "l",
     " ", "t", "h", "o", "s", "e", " ", "r", "o", "v", "e", "r", " ", "m", "i", "s", "s", "i", "o", "n",
     "s", " ", "y", "o", "u", " ", "h", "e", "a", "r", " ", "a", "b", "o", "u", "t", " ", "a", "r", "e",
     " ", "j", "u", "s", "t", " ", "r", "o", "b", "o", "t", "s", "!", " ", "T", "h", "e", " ", "c", "l",
     "o", "s", "e", "s", "t", " ", "h", "u", "m", "a", "n", "s", " ", "h", "a", "v", "e", " ", "g", "o",
     "t", "t", "e", "n", " ", "t", "o", " ", "M", "a", "r", "s", " ", "i", "s", " ", "a", "c", "t", "u",
     "a", "l", "l", "y", " ", "t", "h", "e", " ", "I", "n", "t", "e", "r", "n", "a", "t", "i", "o", "n",
     "a", "l", " ", "S", "p", "a", "c", "e", " ", "S", "t", "a", "t", "i", "o", "n", ".", "\n", "\n", "B",
     "u", "t", " ", "h", "e", "r", "e", "'", "s", " ", "w", "h", "e", "r", "e", " ", "i", "t", " ", "g",
     "e", "t", "s", " ", "c", "r", "a", "z", "y", " ", "-", " ", "t", "h", "e", " ", "J", "a", "m", "e",
     "s", " ", "W", "e", "b", "b", " ", "t", "e", "l", "e", "s", "c", "o", "p", "e", " ", "r", "e", "c",
     "e", "n", "t", "l", "y", " ", "d", "i", "s", "c", "o", "v", "e", "r", "e", "d", " ", "t", "h", "a",
     "t", " ", "t", "h", "e", " ", "u", "n", "i", "v", "e", "r", "s", "e", " ", "m", "i", "g", "h", "t",
     " ", "a", "c", "t", "u", "a", "l", "l", "y", " ", "b", "e", " ", "s", "h", "r", "i", "n", "k", "i",
     "n", "g", " ", "i", "n", "s", "t", "e", "a", "d", " ", "o", "f", " ", "e", "x", "p", "a", "n", "d",
     "i", "n", "g", "!", " ", "S", "c", "i", "e", "n", "t", "i", "s", "t", "s", " ", "a", "r", "e", " ",
     "c", "o", "m", "p", "l", "e", "t", "e", "l", "y", " ", "b", "a", "f", "f", "l", "e", "d", " ", "b",
     "y", " ", "t", "h", "i", "s", " ", "d", "i", "s", "c", "o", "v", "e", "r", "y", " ", "a", "n", "d",
     " ", "i", "t", "'", "s", " ", "c", "h", "a", "n", "g", "i", "n", "g", " ", "e", "v", "e", "r", "y",
     "t", "h", "i", "n", "g", " ", "w", "e", " ", "t", "h", "o", "u", "g", "h", "t", " ", "w", "e", " ",
     "k", "n", "e", "w", " ", "a", "b", "o", "u", "t", " ", "p", "h", "y", "s", "i", "c", "s", ".", "\n",
     "\n", "A", "l", "s", "o", ",", " ", "f", "u", "n", " ", "f", "a", "c", "t", ":", " ", "N", "A", "S",
     "A", "'", "s", " ", "a", "n", "n", "u", "a", "l", " ", "b", "u", "d", "g", "e", "t", " ", "i", "s",
     " ", "a", "c", "t", "u", "a", "l", "l", "y", " ", "l", "a", "r", "g", "e", "r", " ", "t", "h", "a",
     "n", " ", "t", "h", "e", " ", "e", "n", "t", "i", "r", "e", " ", "G", "D", "P", " ", "o", "f", " ",
     "m", "o", "s", "t", " ", "c", "o", "u", "n", "t", "r", "i", "e", "s", "!", " ", "T", "h", "e", "y",
     " ", "s", "p", "e", "n", "d", " ", "o", "v", "e", "r", " ", "1", "0", "0", " ", "b", "i", "l", "l",
     "i", "o", "n", " ", "d", "o", "l", "l", "a", "r", "s", " ", "e", "v", "e", "r", "y", " ", "y", "e",
     "a", "r", " ", "o", "n", " ", "s", "p", "a", "c", "e", " ", "e", "x", "p", "l", "o", "r", "a", "t",
     "i", "o", "n", ",", " ", "w", "h", "i", "c", "h", " ", "i", "s", " ", "m", "o", "r", "e", " ", "t",
     "h", "a", "n", " ", "s", "o", "m", "e", " ", "e", "n", "t", "i", "r", "e", " ", "n", "a", "t", "i",
     "o", "n", "s", " ", "p", "r", "o", "d", "u", "c", "e", "!", "\n", "\n", "A", "n", "d", " ", "g", "e",
     "t", " ", "t", "h", "i", "s", " ", "-", " ", "t", "h", "e", " ", "s", "p", "e", "e", "d", " ", "o",
     "f", " ", "l", "i", "g", "h", "t", " ", "i", "s", "n", "'", "t", " ", "a", "c", "t", "u", "a", "l",
     "l", "y", " ", "c", "o", "n", "s", "t", "a", "n", "t", "!", " ", "N", "e", "w", " ", "r", "e", "s",
     "e", "a", "r", "c", "h", " ", "s", "h", "o", "w", "s", " ", "t", "h", "a", "t", " ", "l", "i", "g",
     "h", "t", " ", "t", "r", "a", "v", "e", "l", "s", " ", "f", "a", "s", "t", "e", "r", " ", "i", "n",
     " ", "s", "o", "m", "e", " ", "p", "a", "r", "t", "s", " ", "o", "f", " ", "t", "h", "e", " ", "u",
     "n", "i", "v", "e", "r", "s", "e", " ", "t", "h", "a", "n", " ", "o", "t", "h", "e", "r", "s", ".",
     " ", "E", "i", "n", "s", "t", "e", "i", "n", "'", "s", " ", "t", "h", "e", "o", "r", "i", "e", "s",
     " ", "m", "i", "g", "h", "t", " ", "n", "e", "e", "d", " ", "s", "o", "m", "e", " ", "m", "a", "j",
     "o", "r", " ", "u", "p", "d", "a", "t", "e", "s", "!", "\n", "\n", "M", "a", "k", "e", " ", "s", "u",
     "r", "e", " ", "t", "o", " ", "f", "o", "l", "l", "o", "w", " ", "f", "o", "r", " ", "m", "o", "r",
     "e", " ", "i", "n", "c", "r", "e", "d", "i", "b", "l", "e", " ", "s", "c", "i", "e", "n", "c", "e",
     " ", "f", "a", "c", "t", "s", " ", "t", "h", "a", "t", " ", "w", "i", "l", "l", " ", "b", "l", "o",
     "w", " ", "y", "o", "u", "r", " ", "m", "i", "n", "d", "!", " ", "*", "*", "*" >>

InstagramTranscript ==
  << "Q", "u", "i", "c", "k", " ", "s", "c", "i", "e", "n", "c", "e", " ", "u", "p", "d", "a", "t", "e",
     " ", "f", "o", "r", " ", "y", "o", "u", " ", "g", "u", "y", "s", "!", " ", "J", "u", "s", "t", " ",
     "l", "e", "a", "r", "n", "e", "d", " ", "s", "o", "m", "e", " ", "i", "n", "c", "r", "e", "d", "i",
     "b", "l", "e", " ", "f", "a", "c", "t", "s", " ", "a", "b", "o", "u", "t", " ", "o", "u", "r", " ",
     "u", "n", "i", "v", "e", "r", "s", "e", " ", "t", "h", "a", "t", " ", "I", " ", "h", "a", "d", " ",
     "t", "o", " ", "s", "h", "a", "r", "e", ".", "\n", "\n", "S", "o", " ", "a", "p", "p", "a", "r", "e",
     "n", "t", "l", "y", ",", " ", "t", "h", "e", " ", "J", "a", "m", "e", "s", " ", "W", "e", "b", "b",
     " ", "S", "p", "a", "c", "e", " ", "T", "e", "l", "e", "s", "c", "o", "p", "e", " ", "h", "a", "s",
     " ", "b", "e", "e", "n", " ", "c", "a", "p", "t", "u", "r", "i", "n", "g", " ", "i", "m", "a", "g",
     "e", "s", " ", "t", "h", "a", "t", " ", "s", "h", "o", "w", " ", "t", "h", "e", " ", "u", "n", "i",
     "v", "e", "r", "s", "e", " ", "e", "x", "p", "a", "n", "d", "i", "n", "g", " ", "f", "a", "s", "t",
     "e", "r", " ", "t", "h", "a", "n", " ", "w", "e", " ", "t", "h", "o", "u", "g", "h", "t", ".", " ",
     "T", "h", "e", " ", "d", "a", "t", "a", " ", "s", "u", "g", "g", "e", "s", "t", "s", " ", "d", "a",
     "r", "k", " ", "e", "n", "e", "r", "g", "y", " ", "m", "a", "k", "e", "s", " ", "u", "p", " ", "a",
     "b", "o", "u", "t", " ", "6", "8", "%", " ", "o", "f", " ", "e", "v", "e", "r", "y", "t", "h", "i",
     "n", "g", " ", "i", "n", " ", "e", "x", "i", "s", "t", "e", "n", "c", "e", " ", "-", " ", "p", "r",
     "e", "t", "t", "y", " ", "w", "i", "l", "d", " ", "w", "h", "e", "n", " ", "y", "o", "u", " ", "t",
     "h", "i", "n", "k", " ", "a", "b", "o", "u", "t", " ", "i", "t", ".", "\n", "\n", "A", "l", "s", "o",
     " ", "b", "e", "e", "n", " ", "r", "e", "a", "d", "i", "n", "g", " ", "a", "b", "o", "u", "t", " ",
     "M", "a", "r", "s", " ", "e", "x", "p", "l", "o", "r", "a", "t", "i", "o", "n", " ", "l", "a", "t",
     "e", "l", "y", ".", " ", "T", "h", "e", " ", "P", "e", "r", "s", "e", "v", "e", "r", "a", "n", "c",
     "e", " ", "r", "o", "v", "e", "r", " ", "f", "o", "u", "n", "d", " ", "o", "r", "g", "a", "n", "i",
     "c", " ", "c", "o", "m", "p", "o", "u", "n", "d", "s", " ", "i", "n", " ", "M", "a", "r", "t", "i",
     "a", "n", " ", "s", "o", "i", "l", " ", "s", "a", "m", "p", "l", "e", "s", ",", " ", "w", "h", "i",
     "c", "h", " ", "c", "o", "u", "l", "d", " ", "i", "n", "d", "i", "c", "a", "t", "e", " ", "p", "a",
     "s", "t", " ", "m", "i", "c", "r", "o", "b", "i", "a", "l", " ", "l", "i", "f", "e", ".", " ", "N",
     "A", "S", "A", "'", "s", " ", "p", "l", "a", "n", "n", "i", "n", "g", " ", "h", "u", "m", "a", "n",
     " ", "m", "i", "s", "s", "i", "o", "n", "s", " ", "f", "o", "r", " ", "t", "h", "e", " ", "2", "0",
     "3", "0", "s", ",", " ", "w", "h", "i", "c", "h", " ", "i", "s", " ", "s", "o", " ", "e", "x", "c",
     "i", "t", "i", "n", "g", "!", "\n", "\n", "C", "l", "i", "m", "a", "t", "e", " ", "w", "i", "s", "e",
     ",", " ", "t", "h", "e", " ", "l", "a", "t", "e", "s", "t", " ", "r", "e", "s", "e", "a", "r", "c",
     "h", " ", "s", "h", "o", "w", "s", " ", "w", "e", "'", "r", "e", " ", "s", "e", "e", "i", "n", "g",
     " ", "t", "e", "m", "p", "e", "r", "a", "t", "u", "r", "e", " ", "i", "n", "c", "r", "e", "a", "s",
     "e", "s", " ", "o", "f", " ", "a", "b", "o", "u", "t", " ", "0", ".", "1", "8", " ", "d", "e", "g",
     "r", "e", "e", "s", " ", "p", "e", "r", " ", "d", "e", "c", "a", "d", "e", " ", "g", "l", "o", "b",
     "a", "l", "l", "y", ".", " ", "T", "h", "e", " ", "e", "f", "f", "e", "c", "t", "s", " ", "a", "r",
     "e", " ", "b", "e", "c", "o", "m", "i", "n", "g", " ", "m", "o", "r", "e", " ", "v", "i", "s", "i",
     "b", "l", "e", " ", "w", "i", "t", "h", " ", "e", "x", "t", "r", "e", "m", "e", " ", "w", "e", "a",
     "t", "h", "e", "r", " ", "e", "v", "e", "n", "t", "s", " ", "h", "a", "p", "p", "e", "n", "i", "n",
     "g", " ", "m", "o", "r", "e", " ", "f", "r", "e", "q", "u", "e", "n", "t", "l", "y", ".", "\n", "\n",
     "T", "e", "c", "h", "n", "o", "l", "o", "g", "y", " ", "i", "s", " ", "a", "d", "v", "a", "n", "c",
     "i", "n", "g", " ", "s", "o", " ", "f", "a", "s", "t", " ", "t", "o", "o", ".", " ", "A", "I", " ",
     "m", "o", "d", "e", "l", "s", " ", "a", "r", "e", " ", "n", "o", "w", " ", "h", "e", "l", "p", "i",
     "n", "g", " ", "s", "c", "i", "e", "n", "t", "i", "s", "t", "s", " ", "p", "r", "o", "c", "e", "s",
     "s", " ", "d", "a", "t", "a", " ", "f", "r", "o", "m", " ", "s", "p", "a", "c", "e", " ", "t", "e",
     "l", "e", "s", "c", "o", "p", "e", "s", " ", "a", "n", "d", " ", "m", "a", "k", "e", " ", "d", "i",
     "s", "c", "o", "v", "e", "r", "i", "e", "s", " ", "t", "h", "a", "t", " ", "w", "o", "u", "l", "d",
     " ", "t", "a", "k", "e", " ", "h", "u", "m", "a", "n", "s", " ", "y", "e", "a", "r", "s", " ", "t",
     "o", " ", "f", "i", "n", "d", ".", " ", "I", "t", "'", "s", " ", "a", "m", "a", "z", "i", "n", "g",
     " ", "h", "o", "w", " ", "m", "a", "c", "h", "i", "n", "e", " ", "l", "e", "a", "r", "n", "i", "n",
     "g", " ", "i", "s", " ", "a", "c", "c", "e", "l", "e", "r", "a", "t", "i", "n", "g", " ", "s", "c",
     "i", "e", "n", "t", "i", "f", "i", "c", " ", "r", "e", "s", "e", "a", "r", "c", "h", "." >>

DefaultTranscript ==
  << "T", "h", "i", "s", " ", "v", "i", "d", "e", "o", " ", "d", "i", "s", "c", "u", "s", "s", "e", "s",
     " ", "v", "a", "r", "i", "o", "u", "s", " ", "c", "u", "r", "r", "e", "n", "t", " ", "t", "o", "p",
     "i", "c", "s", " ", "i", "n", "c", "l", "u", "d", "i", "n", "g", " ", "s", "c", "i", "e", "n", "t",
     "i", "f", "i", "c", " ", "r", "e", "s", "e", "a", "r", "c", "h", " ", "d", "e", "v", "e", "l", "o",
     "p", "m", "e", "n", "t", "s", ",", " ", "t", "e", "c", "h", "n", "o", "l", "o", "g", "i", "c", "a",
     "l", " ", "a", "d", "v", "a", "n", "c", "e", "s", ",", " ", "a", "n", "d", " ", "g", "l", "o", "b",
     "a", "l", " ", "i", "s", "s", "u", "e", "s", ".", " ", "T", "h", "e", " ", "s", "p", "e", "a", "k",
     "e", "r", " ", "p", "r", "e", "s", "e", "n", "t", "s", " ", "i", "n", "f", "o", "r", "m", "a", "t",
     "i", "o", "n", " ", "a", "b", "o", "u", "t", " ", "s", "p", "a", "c", "e", " ", "e", "x", "p", "l",
     "o", "r", "a", "t", "i", "o", "n", ",", " ", "c", "l", "i", "m", "a", "t", "e", " ", "r", "e", "s",
     "e", "a", "r", "c", "h", ",", " ", "a", "n", "d", " ", "r", "e", "c", "e", "n", "t", " ", "d", "i",
     "s", "c", "o", "v", "e", "r", "i", "e", "s", " ", "i", "n", " ", "p", "h", "y", "s", "i", "c", "s",
     " ", "a", "n", "d", " ", "a", "s", "t", "r", "o", "n", "o", "m", "y", ".", " ", "T", "h", "e", " ",
     "c", "o", "n", "t", "e", "n", "t", " ", "i", "n", "c", "l", "u", "d", "e", "s", " ", "b", "o", "t",
     "h", " ", "e", "s", "t", "a", "b", "l", "i", "s", "h", "e", "d", " ", "s", "c", "i", "e", "n", "t",
     "i", "f", "i", "c", " ", "f", "a", "c", "t", "s", " ", "a", "n", "d", " ", "s", "o", "m", "e", " ",
     "c", "l", "a", "i", "m", "s", " ", "t", "h", "a", "t", " ", "r", "e", "q", "u", "i", "r", "e", " ",
     "v", "e", "r", "i", "f", "i", "c", "a", "t", "i", "o", "n", " ", "t", "h", "r", "o", "u", "g", "h",
     " ", "a", "u", "t", "h", "o", "r", "i", "t", "a", "t", "i", "v", "e", " ", "s", "o", "u", "r", "c",
     "e", "s", "." >>

generateRealisticTranscript(u) ==
  CASE u.host = "youtube" -> YouTubeTranscript
    [] u.host = "tiktok" -> TikTokTranscript
    [] u.host = "instagram" -> InstagramTranscript
    [] OTHER -> DefaultTranscript

\* VideoProcessor.extractClaims: the claims its catch block returns
TikTokClaims ==
  << Claim(<< "H", "u", "m", "a", "n", "s", " ", "h", "a", "v", "e", " ", "n", "e", "v", "e", "r", " ", "a", "c",
              "t", "u", "a", "l", "l", "y", " ", "l", "a", "n", "d", "e", "d", " ", "o", "n", " ", "M", "a", "r",
              "s" >>,
           <<0, 15>>),
     Claim(<< "T", "h", "e", " ", "J", "a", "m", "e", "s", " ", "W", "e", "b", "b", " ", "t", "e", "l", "e", "s",
              "c", "o", "p", "e", " ", "d", "i", "s", "c", "o", "v", "e", "r", "e", "d", " ", "t", "h", "e", " ",
              "u", "n", "i", "v", "e", "r", "s", "e", " ", "i", "s", " ", "s", "h", "r", "i", "n", "k", "i", "n",
              "g" >>,
           <<0, 45>>),
     Claim(<< "N", "A", "S", "A", "'", "s", " ", "b", "u", "d", "g", "e", "t", " ", "i", "s", " ", "l", "a", "r",
              "g", "e", "r", " ", "t", "h", "a", "n", " ", "m", "o", "s", "t", " ", "c", "o", "u", "n", "t", "r",
              "i", "e", "s", "'", " ", "e", "n", "t", "i", "r", "e", " ", "G", "D", "P" >>,
           <<1, 10>>) >>

OtherClaims ==
  << Claim(<< "C", "l", "i", "m", "a", "t", "e", " ", "c", "h", "a", "n", "g", "e", " ", "a", "f", "f", "e", "c",
              "t", "s", " ", "w", "e", "a", "t", "h", "e", "r", " ", "p", "a", "t", "t", "e", "r", "n", "s", " ",
              "g", "l", "o", "b", "a", "l", "l", "y" >>,
           <<1, 23>>),
     Claim(<< "R", "e", "n", "e", "w", "a", "b", "l", "e", " ", "e", "n", "e", "r", "g", "y", " ", "a", "d", "o",
              "p", "t", "i", "o", "n", " ", "h", "a", "s", " ", "i", "n", "c", "r", "e", "a", "s", "e", "d", " ",
              "3", "0", "0", "%", " ", "i", "n", " ", "t", "h", "e", " ", "l", "a", "s", "t", " ", "d", "e", "c",
              "a", "d", "e" >>,
           <<2, 15>>) >>

\* the claims a claim-extraction response may carry
OracleClaims ==
  { Claim(<< "M", "a", "r", "s", " ", "r", "o", "v", "e", "r", "s", " ", "n", "e", "v", "e", "r", " ", "l", "a",
             "n", "d", "e", "d", "." >>,
          <<0, 10>>),
    Claim(<< "W", "a", "t", "e", "r", " ", "i", "s", " ", "w", "e", "t" >>, <<1, 5>>) }

SixClaims ==
  [k \in 1..6 |-> Claim(<< "C", "l", "a", "i", "m" >>, <<k, 0>>)]

\* what the request of extractClaims may settle to
ClaimsOutcomes ==
  Failures \cup
  { Answer(Content(<<>>, FALSE, NotJson)),
    Answer(Content(AnalysisText, FALSE, NotJson)),
    Answer(Content(RawJsonText, FALSE, JsonNull)),
    Answer(Content(RawJsonText, FALSE, Json(NotArr))) } \cup
  { Answer(Content(RawJsonText, TRUE, Json(Arr(cs))))
    : cs \in SeqsUpTo(OracleClaims, MaxSegs) \cup {SixClaims} }

\* VideoProcessor.extractClaims, from the settled request on; u is
\* this.currentVideoUrl
extractClaims(out, u) ==
  LET claims == JsonParse(StripFences(out.content))
      caught == IF u.host = "tiktok" THEN TikTokClaims ELSE OtherClaims
  IN IF out.kind # "content" THEN caught
     ELSE IF out.content.raw = <<>> THEN <<>>
     ELSE IF ~claims.ok THEN caught
     ELSE IF ~claims.isNull /\ claims.value.isArray THEN Slice(claims.value.items, 5)
     ELSE <<>>

\* the catch block of extractClaims throws in its turn: new URL(...) of a text
\* that is no URL
extractClaimsRejects(out, u) ==
  /\ \/ out.kind # "content"
     \/ out.content.raw # <<>> /\ ~JsonParse(StripFences(out.content)).ok
  /\ ~u.parses

\* VideoProcessor.looksLikeFactualClaim: the alternatives of factualPatterns
UnitWords ==
  { << "p", "e", "r", "c", "e", "n", "t" >>,
    << "d", "e", "g", "r", "e", "e", "s" >>,
    << "y", "e", "a", "r", "s" >>,
    << "m", "i", "l", "l", "i", "o", "n" >>,
    << "b", "i", "l", "l", "i", "o", "n" >> }
SourceWords ==
  { << "s", "c", "i", "e", "n", "t", "i", "s", "t" >>,
    << "r", "e", "s", "e", "a", "r", "c", "h", "e", "r" >>,
    << "s", "t", "u", "d", "i", "e" >>,
    << "d", "a", "t", "a" >>,
    << "e", "v", "i", "d", "e", "n", "c", "e" >> }
FindingWords ==
  { << "d", "i", "s", "c", "o", "v", "e", "r", "e", "d" >>,
    << "f", "o", "u", "n", "d" >>,
    << "s", "h", "o", "w" >>,
    << "p", "r", "o", "v", "e" >>,
    << "c", "o", "n", "f", "i", "r", "m" >> }
ExtentWords ==
  { << "n", "e", "v", "e", "r" >>,
    << "a", "l", "w", "a", "y", "s" >>,
    << "a", "l", "l" >>,
    << "e", "v", "e", "r", "y" >>,
    << "m", "o", "s", "t" >>,
    << "l", "a", "r", "g", "e", "s", "t" >>,
    << "s", "m", "a", "l", "l", "e", "s", "t" >> }

IsDigit(c) == c \in {"0", "1", "2", "3", "4", "5", "6", "7", "8", "9"}

IsSpace(c) == c \in {" "}

looksLikeFactualClaim(sentence) ==
  LET s == Lower(sentence) \o <<>>
      n == Len(s)
  IN \/ \E i \in 1..n :
          /\ IsDigit(s[i])
          /\ \/ OccursAt(s, PercentSign, i + 1)
             \/ \E j \in (i + 1)..n :
                  /\ \A k \in (i + 1)..(j - 1) : IsSpace(s[k])
                  /\ \E w \in UnitWords : OccursAt(s, w, j)
     \/ \E w \in SourceWords \cup FindingWords \cup ExtentWords : Includes(s, w)

RequireVerification ==
  << Claim(<< "V", "i", "d", "e", "o", " ", "c", "o", "n", "t", "a", "i", "n", "s", " ", "c", "l", "a", "i", "m", "s", " ", "t", "h", "a", "t", " ", "r", "e", "q", "u", "i", "r", "e", " ", "v", "e", "r", "i", "f", "i", "c", "a", "t", "i", "o", "n" >>,
           <<0, 30>>) >>

\* VideoProcessor.extractClaimsFallback
extractClaimsFallback(transcript) ==
  LET sentences == FilterLonger(SplitSentences(transcript), 10)
      first == IF Len(sentences) < 4 THEN Len(sentences) ELSE 4
      kept == {i \in 1..first : looksLikeFactualClaim(Trim(sentences[i]))}
      Nth(j) == CHOOSE i \in kept : Cardinality({x \in kept : x < i}) = j - 1
      claims == [j \in 1..Cardinality(kept) |->
                   Claim(Trim(sentences[Nth(j)]),
                         <<(Nth(j) - 1) * 30, ((Nth(j) - 1) * 15) % 60>>)]
  IN IF Len(claims) > 0 THEN claims ELSE RequireVerification

(***************************************************************************)
(* The aggregators                                                         *)
(***************************************************************************)
\* the object literals verdictScores and scoreMap, indexed by a verdict
verdictScores(v) ==
  CASE v = "True" -> Number(100)
    [] v = "Mostly True" -> Number(80)
    [] v = "Mixed" -> Number(50)
    [] v = "Mostly False" -> Number(20)
    [] v = "False" -> Number(0)
    [] OTHER -> Undefined

\* the reduce: sum + (verdictScores[verdict] || 0.5)
RECURSIVE TotalScore(_)
TotalScore(verdicts) ==
  IF verdicts = <<>> THEN 0
  ELSE OrDefault(verdictScores(Head(verdicts)), 50) + TotalScore(Tail(verdicts))

RECURSIVE SumConfidence(_)
SumConfidence(js) ==
  IF js = <<>> THEN 0 ELSE Head(js).confidence.v + SumConfidence(Tail(js))

VerdictsOf(analyzed) ==
  [k \in 1..Len(analyzed) |-> analyzed[k].analysis.verdict]
JudgmentsOf(analyzed) ==
  [k \in 1..Len(analyzed) |-> analyzed[k].analysis]
CountVerdict(analyzed, v) ==
  Cardinality({k \in 1..Len(analyzed) : analyzed[k].analysis.verdict = v})

\* Math.round of a non-negative quotient; NaN stays NaN
Round(q) == IF IsNaN(q) THEN q ELSE Num((2 * q.num + q.den) \div (2 * q.den))

\* q >= x / 100 (false for NaN)
AtLeast(q, x) == ~IsNaN(q) /\ q.num >= x * q.den

\* FreeVideoProcessor.generateInsights
generateInsights(analyzed, fullTranscript) ==
  LET n == Len(analyzed)
      overallAccuracy == Quot(TotalScore(VerdictsOf(analyzed)), n)
      avgConfidence == Quot(SumConfidence(JudgmentsOf(analyzed)), n)
      highConfidenceClaims ==
        Cardinality({k \in 1..n : analyzed[k].analysis.confidence.v >= 80})
  IN [overallAccuracy |-> overallAccuracy,
      keyFindings |->
        << Finding("Analyzed factual statements using FREE Whisper + Kimi K2", n, <<>>),
           Finding("claims verified as accurate, identified as inaccurate",
                   CountVerdict(analyzed, "True"),
                   <<CountVerdict(analyzed, "False")>>),
           Finding("Average AI confidence score", highConfidenceClaims,
                   <<Round(avgConfidence)>>),
           Finding("Video contains information", 0,
                   <<IF AtLeast(overallAccuracy, 80) THEN "primarily accurate"
                     ELSE IF AtLeast(overallAccuracy, 60) THEN "mixed accuracy"
                     ELSE "questionable">>),
           Finding("Processing completed with REAL API integrations: FREE Whisper + Kimi K2",
                   0, <<>>) >>]

\* RealVideoProcessor.synthesizeInsights
synthesizeInsights(analyzed, fullTranscript) ==
  LET n == Len(analyzed)
  IN [overallAccuracy |-> Quot(TotalScore(VerdictsOf(analyzed)), n),
      keyFindings |->
        << Finding("Analyzed factual claims from video transcript", n, <<>>),
           Finding("claims verified as accurate", CountVerdict(analyzed, "True"), <<>>),
           Finding("claims identified as inaccurate",
                   CountVerdict(analyzed, "False"), <<>>),
           Finding("Average confidence score", 0,
                   <<Round(Quot(SumConfidence(JudgmentsOf(analyzed)), n))>>) >>]

\* VideoProcessor.calculateOverallScore
calculateOverallScore(claims) ==
  IF Len(claims) = 0 THEN Num(0)
  ELSE Quot(TotalScore([k \in 1..Len(claims) |-> claims[k].verdict]), Len(claims))

\* VideoProcessor.calculateAccuracyDistribution: accurate, total and the
\* rounded percentage of its summary (no total: 'No claims analyzed')
calculateAccuracyDistribution(claims) ==
  LET total == Len(claims)
      accurate == Cardinality({k \in 1..total : claims[k].verdict \in {"True", "Mostly True"}})
  IN IF total = 0 THEN <<>>
     ELSE <<accurate, total, Round(Quot(accurate * 100, total)).num>>

(***************************************************************************)
(* The run: what the entry point's promise settles to                      *)
(***************************************************************************)
Pending == [kind |-> "pending", via |-> "", report |-> NoValue, error |-> ""]
Returned(via, report) == [kind |-> "returned", via |-> via, report |-> report, error |-> ""]
Rejected(e) == [kind |-> "rejected", via |-> "", report |-> NoValue, error |-> e]

\* videoId: the id found in the URL, or Date.now().toString()
VideoId(id, now) == [id |-> id, now |-> now]

ErrorText(message) == <<"E", "r", "r", "o", "r", ":", " ", message>>

\* ActualVideoProcessor.handleError: the report it returns
ActualErrorReport(message, ss, now) ==
  [videoId |-> VideoId("", now),
   platform |-> "Error",
   title |-> "Processing Failed",
   duration |-> Duration(0, 0, 0),
   fullTranscript |-> ErrorText(message),
   segmentedAnalysis |-> <<>>,
   overallAccuracy |-> Num(0),
   keyFindings |-> << Finding("Error", 0, <<message>>),
                      Finding("Please try a different video URL", 0, <<>>) >>,
   processingTime |-> now,
   steps |-> ss]

FailedTranscript == <<"Transcription could not be completed due to processing error.">>

\* FreeVideoProcessor.handleError: the report it returns
FreeErrorReport(message, ss, now) ==
  [videoId |-> VideoId("", now),
   platform |-> "Error",
   title |-> "Processing Failed",
   duration |-> <<0, 0>>,
   fullTranscript |-> FailedTranscript,
   segmentedAnalysis |-> <<>>,
   overallAccuracy |-> Num(0),
   keyFindings |-> << Finding("Processing failed", 0, <<message>>),
                      Finding("Please try again with a different video URL", 0, <<>>) >>,
   processingTime |-> now,
   steps |-> ss]

\* RealVideoProcessor.handleRealProcessingError: the report it returns
RealErrorReport(message, ss, now) ==
  [videoId |-> VideoId("", now),
   platform |-> "Unknown",
   title |-> "Analysis Failed",
   duration |-> <<0, 0>>,
   fullTranscript |-> <<"Transcription could not be completed due to error.">>,
   segmentedAnalysis |-> <<>>,
   overallAccuracy |-> Num(0),
   keyFindings |-> <<Finding("Processing failed", 0, <<message>>)>>,
   processingTime |-> now,
   steps |-> ss]

\* VideoProcessor.handleProcessingError: the report it returns
VideoErrorReport(message, ss, now) ==
  [videoId |-> VideoId("", now),
   platform |-> "Unknown",
   title |-> "Analysis Failed",
   transcript |-> FailedTranscript,
   claims |-> <<VerifiedClaim(1, Claim(<<"Video analysis encountered an error">>, <<0, 0>>),
                              Number(0), "Mixed", Arr(<<ErrorText(message)>>), Arr(<<>>))>>,
   overallScore |-> Num(0),
   processingTime |-> now,
   steps |-> ss]

ErrorReport(p, message, ss, now) ==
  CASE p = "Actual" -> ActualErrorReport(message, ss, now)
    [] p = "Free" -> FreeErrorReport(message, ss, now)
    [] p = "Real" -> RealErrorReport(message, ss, now)
    [] p = "Video" -> VideoErrorReport(message, ss, now)

\* analyzedSegments.filter(s => s.analysis.confidence > 0.7).length
HighConfidence(analyzed) ==
  Cardinality({k \in 1..Len(analyzed) : analyzed[k].analysis.confidence.v > 70})

\* the message of updateStep(..., 'processing', ...)
ProcessingMessage(p, name) ==
  CASE p = "Actual" ->
         (CASE name = "validate" -> Msg("Validating YouTube URL...", 0)
            [] name = "extract" -> Msg("Extracting real YouTube transcript...", 0)
            [] name = "kimiAnalyze" ->
                 Msg("Kimi K2 fact-checking with sources and evidence...", 0)
            [] name = "results" -> Msg("Compiling final results...", 0))
    [] p = "Free" ->
         (CASE name = "validate" -> Msg("Extracting video information...", 0)
            [] name = "download" -> Msg("Downloading and extracting audio stream...", 0)
            [] name = "whisper" -> Msg("Running FREE Whisper AI transcription...", 0)
            [] name = "segment" ->
                 Msg("Segmenting transcript for line-by-line analysis...", 0)
            [] name = "kimi" -> Msg("Analyzing segments with Kimi K2...", Len(segments))
            [] name = "synthesize" ->
                 Msg("Connecting patterns and generating comprehensive insights...", 0))
    [] p = "Real" ->
         (CASE name = "validate" -> Msg("Extracting video metadata...", 0)
            [] name = "download" -> Msg("Downloading video and extracting audio stream...", 0)
            [] name = "transcribe" -> Msg("Transcribing audio with OpenAI Whisper API...", 0)
            [] name = "segment" -> Msg("Preparing transcript segments for analysis...", 0)
            [] name = "analyze" -> Msg("Analyzing segments with Kimi K2 AI...", Len(segments))
            [] name = "synthesize" ->
                 Msg("Connecting patterns and generating comprehensive insights...", 0))
    [] p = "Video" ->
         (CASE name = "validate" ->
                 Msg("Validating video URL and checking accessibility...", 0)
            [] name = "extract" -> Msg("Extracting high-quality audio stream...", 0)
            [] name = "transcribe" -> Msg("Transcribing audio with OpenAI Whisper AI...", 0)
            [] name = "analyze" ->
                 Msg("Using AI to extract verifiable claims from transcript...", 0)
            [] name = "factcheck" ->
                 Msg("Fact-checking claims with Kimi K2 AI...", Len(segments))
            [] name = "complete" -> Msg("Generating comprehensive analysis report...", 0))

\* the message of updateStep(..., 'completed', ...)
CompletedMessage(p, name) ==
  CASE p = "Actual" ->
         (CASE name = "validate" -> Msg("Valid YouTube video detected", 0)
            [] name = "extract" ->
                 Msg("Real transcript extracted: chars", Len(transcriptData.transcript))
            [] name = "kimiAnalyze" ->
                 Msg("Kimi K2 analysis complete with fact-checked segments",
                     Len(kimiAnalysis.segments))
            [] name = "results" ->
                 Msg("Complete! Accuracy: %", finalResults.overallAccuracy.num))
    [] p \in {"Free", "Real"} ->
         (CASE name = "validate" -> Msg(videoInfo.title, videoInfo.platform)
            [] name = "download" -> Msg("Audio extracted", videoInfo.duration)
            [] name \in {"whisper", "transcribe"} ->
                 Msg("Transcript: segments, chars",
                     <<Len(transcriptionResult.segments), Len(transcriptionResult.text)>>)
            [] name = "segment" -> Msg("Prepared segments", Len(segments))
            [] name \in {"kimi", "analyze"} ->
                 Msg("complete: high-confidence", HighConfidence(analyzedSegments))
            [] name = "synthesize" ->
                 Msg("Analysis complete! Overall accuracy: %", Round(insights.overallAccuracy)))
    [] p = "Video" ->
         (CASE name = "validate" -> Msg("Valid URL verified and accessible", videoInfo.platform)
            [] name = "extract" -> Msg("Audio extracted", videoInfo.duration)
            [] name = "transcribe" ->
                 Msg("Transcription complete: chars, words",
                     <<Len(transcriptionResult), (Len(transcriptionResult) + 4) \div 5>>)
            [] name = "analyze" ->
                 Msg("Analysis complete: factual claims identified", Len(segments))
            [] name = "factcheck" ->
                 Msg("Fact-checking complete", calculateAccuracyDistribution(analyzedSegments))
            [] name = "complete" ->
                 Msg("Complete analysis ready! Overall accuracy: %",
                     Round(insights.overallScore)))

\* a return of the compiled results as they are, without the run's steps
SuccessReportAsCompiled(p, ss, now) ==
  IF p = "Actual" THEN finalResults ELSE [processingTime |-> now, steps |-> <<>>]

\* the value the entry point returns after its last updateStep
SuccessReport(p, ss, now) ==
  CASE p = "Actual" -> [finalResults EXCEPT !.steps = ss]
    [] p \in {"Free", "Real"} ->
         [videoId |-> VideoId("", 0),
          platform |-> videoInfo.platform,
          title |-> videoInfo.title,
          duration |-> videoInfo.duration,
          fullTranscript |-> transcriptionResult.text,
          segmentedAnalysis |-> analyzedSegments,
          overallAccuracy |-> insights.overallAccuracy,
          keyFindings |-> insights.keyFindings,
          processingTime |-> now,
          steps |-> ss]
    [] p = "Video" ->
         [videoId |-> VideoId("", 0),
          platform |-> videoInfo.platform,
          title |-> <<videoInfo.platform, "Video Analysis">>,
          transcript |-> transcriptionResult,
          claims |-> analyzedSegments,
          overallScore |-> insights.overallScore,
          processingTime |-> insights.processingTime,
          steps |-> ss]

(***************************************************************************)
(* The run: actions                                                        *)
(***************************************************************************)
Processors == {"Actual", "Free", "Real", "Video"}

\* the video references a run of processor p is started with
UrlsOf(p) ==
  IF p = "Actual" THEN VideoUrls
  ELSE IF p = "Video" THEN { u \in VideoUrls : u.id # "unknown" \/ u.host # "youtube" }
  ELSE { u \in VideoUrls : (u.http /\ u.id # "unknown") \/ u.host = "tiktok" \/ ~u.parses }

Init ==
  /\ proc \in Processors
  /\ videoUrl \in UrlsOf(proc)
  /\ currentVideoUrl = IF proc = "Video" THEN videoUrl ELSE NoValue
  /\ steps = InitialSteps(proc)
  /\ cur = 1
  /\ pc = "begin"
  /\ error = ""
  /\ result = Pending
  /\ cbFails = 0
  /\ progress = <<>>
  /\ inflight = NoCall
  /\ method = 0
  /\ attempt = 0
  /\ calls = <<>>
  /\ generated = NoValue
  /\ transcriptData = NoValue
  /\ kimiAnalysis = NoValue
  /\ finalResults = NoValue
  /\ videoInfo = NoValue
  /\ retryCount = 0
  /\ tried = <<>>
  /\ transcriptionResult = NoValue
  /\ segments = <<>>
  /\ analyzedSegments = <<>>
  /\ idx = 0
  /\ waits = <<>>
  /\ insights = NoValue
  /\ loading = FALSE
  /\ hookError = Null
  /\ requests = <<>>
  /\ fn = "none"
  /\ input = NoValue
  /\ output = NoValue

\* a throw inside the entry point's try block
Throw(message) ==
  /\ pc' = "catch"
  /\ error' = message

\* await this.updateStep(steps, <step>, 'processing', ...)
BeginStep ==
  /\ pc = "begin"
  /\ LET name == steps[cur].step
         next == UpdateStep(steps, name, "processing", ProcessingMessage(proc, name))
     IN /\ steps' = next
        /\ \E ok \in BOOLEAN :
             /\ Emit(next, ok)
             /\ IF ok THEN pc' = "stage" /\ error' = error ELSE Throw(CallbackError)
  /\ UNCHANGED <<stagedVars, fnVars, hookVars, proc, videoUrl, currentVideoUrl, cur, result, inflight, actualVars>>

\* await this.updateStep(steps, <step>, 'completed', ...), and the return
\* statement after the last one
EndStep ==
  /\ pc = "end"
  /\ LET name == steps[cur].step
         next == UpdateStep(steps, name, "completed", CompletedMessage(proc, name))
     IN /\ steps' = next
        /\ \E ok \in BOOLEAN :
             /\ Emit(next, ok)
             /\ IF ~ok THEN Throw(CallbackError) /\ UNCHANGED <<cur, result>>
                ELSE IF cur < Len(steps)
                THEN cur' = cur + 1 /\ pc' = "begin" /\ UNCHANGED <<error, result>>
                ELSE /\ pc' = "done"
                     /\ \E now \in Elapsed :
                          result' = Returned("success", SuccessReport(proc, next, now))
                     /\ UNCHANGED <<cur, error>>
  /\ UNCHANGED <<stagedVars, fnVars, hookVars, proc, videoUrl, currentVideoUrl, inflight, actualVars>>

\* a catch block that marks the failed step and goes on with the next stage
HandleErrorGoesOn ==
  /\ pc = "catch"
  /\ LET next == MarkError(steps, error)
     IN /\ steps' = next
        /\ \E ok \in BOOLEAN :
             IF HasProcessing(steps) THEN Emit(next, ok)
             ELSE ok /\ UNCHANGED <<cbFails, progress>>
        /\ IF cur < Len(steps)
           THEN cur' = cur + 1 /\ pc' = "begin" /\ UNCHANGED result
           ELSE /\ pc' = "done"
                /\ cur' = cur
                /\ \E now \in Elapsed :
                     result' = Returned("handleError", ErrorReport(proc, error, next, now))
  /\ UNCHANGED <<stagedVars, fnVars, hookVars, proc, videoUrl, currentVideoUrl, error, inflight, actualVars>>

\* the catch block: handleError / handleRealProcessingError / handleProcessingError
HandleError ==
  /\ pc = "catch"
  /\ pc' = "done"
  /\ LET next == MarkError(steps, error)
     IN /\ steps' = next
        /\ \E now \in Elapsed, ok \in BOOLEAN :
             IF HasProcessing(steps)
             THEN /\ Emit(next, ok)
                  /\ result' = IF ok THEN Returned("handleError", ErrorReport(proc, error, next, now))
                               ELSE Rejected(CallbackError)
             ELSE /\ ok
                  /\ UNCHANGED <<cbFails, progress>>
                  /\ result' = Returned("handleError", ErrorReport(proc, error, next, now))
  /\ UNCHANGED <<stagedVars, fnVars, hookVars, proc, videoUrl, currentVideoUrl, cur, error, inflight, actualVars>>

(***************************************************************************)
(* ActualVideoProcessor.processActualVideo: the stages                     *)
(***************************************************************************)
AtStage(p, name) == proc = p /\ pc = "stage" /\ steps[cur].step = name

Awaiting(call) == pc = "await" /\ inflight.call = call

NotYouTube == "Only YouTube URLs are supported. Please provide a valid YouTube video link."

\* step 1: if (!this.isYouTubeUrl(videoUrl)) throw
Validate ==
  /\ AtStage("Actual", "validate")
  /\ IF isYouTubeUrl(videoUrl) THEN pc' = "end" /\ error' = error ELSE Throw(NotYouTube)
  /\ UNCHANGED <<stagedVars, fnVars, hookVars, proc, videoUrl, currentVideoUrl, steps, cur, result, cbFails, progress, inflight, actualVars>>

\* step 2: extractRealTranscript up to its first await
StartExtract ==
  /\ AtStage("Actual", "extract")
  /\ Await(EnterMethod(1))
  /\ UNCHANGED <<stagedVars, fnVars, hookVars, proc, videoUrl, currentVideoUrl, steps, cur, error, result, cbFails, progress,
                 generated, transcriptData, kimiAnalysis, finalResults>>

\* YoutubeTranscript.fetchTranscript settles: the method returns the formatted
\* transcript, or the cascade moves on to its next fetch
FetchResponds ==
  /\ Awaiting("fetchTranscript")
  /\ \E out \in FetchOutcomes :
       IF out.ok /\ Len(out.items) > 0
       THEN /\ transcriptData' = formatTranscriptResult(out.items, MethodNames[method])
            /\ inflight' = NoCall
            /\ pc' = "end"
            /\ UNCHANGED <<method, attempt, calls>>
       ELSE /\ Await(AfterFailedFetch(method, attempt))
            /\ UNCHANGED transcriptData
  /\ UNCHANGED <<stagedVars, fnVars, hookVars, proc, videoUrl, currentVideoUrl, steps, cur, error, result, cbFails, progress,
                 generated, kimiAnalysis, finalResults>>

\* method 4: the 10 s timer wins Promise.race; the method throws 'Timeout'
TimeoutFires ==
  /\ pc = "await"
  /\ inflight.timer > 0
  /\ Await(EnterMethod(method + 1))
  /\ UNCHANGED <<stagedVars, fnVars, hookVars, proc, videoUrl, currentVideoUrl, steps, cur, error, result, cbFails, progress,
                 generated, transcriptData, kimiAnalysis, finalResults>>

\* the fetch of kimiGenerateContent settles
GenerateResponds ==
  /\ Awaiting("generate")
  /\ \E out \in GenerateOutcomes :
       generated' = out /\ transcriptData' = kimiGenerateContent(out)
  /\ inflight' = NoCall
  /\ pc' = "end"
  /\ UNCHANGED <<stagedVars, fnVars, hookVars, proc, videoUrl, currentVideoUrl, steps, cur, error, result, cbFails, progress,
                 method, attempt, calls, kimiAnalysis, finalResults>>

\* step 3: kimiCompleteAnalysis up to its fetch
StartAnalysis ==
  /\ AtStage("Actual", "kimiAnalyze")
  /\ inflight' = OracleCall("analyze")
  /\ pc' = "await"
  /\ UNCHANGED <<stagedVars, fnVars, hookVars, proc, videoUrl, currentVideoUrl, steps, cur, error, result, cbFails, progress, actualVars>>

\* the fetch of kimiCompleteAnalysis settles
AnalysisResponds ==
  /\ Awaiting("analyze")
  /\ \E out \in AnalysisOutcomes : kimiAnalysis' = kimiCompleteAnalysis(transcriptData, out)
  /\ inflight' = NoCall
  /\ pc' = "end"
  /\ UNCHANGED <<stagedVars, fnVars, hookVars, proc, videoUrl, currentVideoUrl, steps, cur, error, result, cbFails, progress,
                 method, attempt, calls, generated, transcriptData, finalResults>>

\* step 4: compileKimiResults
Compile ==
  /\ AtStage("Actual", "results")
  /\ \E now \in Elapsed :
       finalResults' = compileKimiResults(kimiAnalysis, transcriptData,
                                          VideoId(extractVideoId(videoUrl), 0), now)
  /\ pc' = "end"
  /\ UNCHANGED <<stagedVars, fnVars, hookVars, proc, videoUrl, currentVideoUrl, steps, cur, error, result, cbFails, progress, inflight,
                 method, attempt, calls, generated, transcriptData, kimiAnalysis>>

(***************************************************************************)
(* FreeVideoProcessor.processVideoFree and RealVideoProcessor              *)
(* .processVideoReal: the stages                                           *)
(***************************************************************************)
Staged(names) == proc \in {"Free", "Real"} /\ pc = "stage" /\ steps[cur].step \in names

Info(platform, title, duration) ==
  [platform |-> platform, title |-> title, duration |-> duration]

\* getVideoInfo / extractVideoMetadata without the ytdl call: platform, title
\* and duration by hostname
PlatformInfo(p, u) ==
  CASE u.host = "youtube" ->
         Info("YouTube", "YouTube Video - Real Analysis",
              IF p = "Free" THEN <<3, 45>> ELSE <<5, 43>>)
    [] u.host = "tiktok" -> Info("TikTok", "TikTok Video - Real Analysis", <<0, 45>>)
    [] u.host = "instagram" -> Info("Instagram", "Instagram Video - Real Analysis", <<1, 20>>)
    [] OTHER -> Info("Unknown", "Video Analysis", <<0, 0>>)

\* what ytdl.getInfo may settle to
InfoOutcomes ==
  { [ok |-> FALSE, title |-> "", lengthSeconds |-> 0],
    [ok |-> TRUE, title |-> "Uploaded title", lengthSeconds |-> 212] }

InfoError(p) ==
  IF p = "Free" THEN "Failed to get video info: TypeError: Invalid URL"
  ELSE "Failed to extract video metadata: TypeError: Invalid URL"

\* step 1: getVideoInfo up to ytdl.getInfo, extractVideoMetadata
GetVideoInfo ==
  /\ Staged({"validate"})
  /\ IF ~videoUrl.parses
     THEN Throw(InfoError(proc)) /\ UNCHANGED <<videoInfo, inflight>>
     ELSE IF proc = "Free" /\ videoUrl.host = "youtube"
     THEN /\ inflight' = OracleCall("getInfo")
          /\ pc' = "await"
          /\ UNCHANGED <<videoInfo, error>>
     ELSE /\ videoInfo' = PlatformInfo(proc, videoUrl)
          /\ pc' = "end"
          /\ UNCHANGED <<inflight, error>>
  /\ UNCHANGED <<proc, videoUrl, currentVideoUrl, steps, cur, result, cbFails, progress, actualVars, fnVars, hookVars,
                 retryCount, tried, transcriptionResult, segments, analyzedSegments, idx, waits,
                 insights>>

\* ytdl.getInfo settles
InfoResponds ==
  /\ Awaiting("getInfo")
  /\ \E out \in InfoOutcomes :
       videoInfo' = IF out.ok
                    THEN Info("YouTube", out.title,
                              <<out.lengthSeconds \div 60, out.lengthSeconds % 60>>)
                    ELSE PlatformInfo(proc, videoUrl)
  /\ inflight' = NoCall
  /\ pc' = "end"
  /\ UNCHANGED <<proc, videoUrl, currentVideoUrl, steps, cur, error, result, cbFails, progress, actualVars,
                 fnVars, hookVars, retryCount, tried, transcriptionResult, segments, analyzedSegments, idx,
                 waits, insights>>

\* step 2: downloadAndExtractAudio returns its placeholder buffer
Download ==
  /\ Staged({"download"})
  /\ pc' = "end"
  /\ UNCHANGED <<proc, videoUrl, currentVideoUrl, steps, cur, error, result, cbFails, progress, inflight,
                 actualVars, stagedVars, fnVars, hookVars>>

\* step 3: transcribeWithFreeWhisper / transcribeWithWhisper
Transcribe ==
  /\ Staged({"whisper", "transcribe"})
  /\ transcriptionResult' = IF proc = "Free" THEN FreeMockTranscription
                            ELSE RealMockTranscription
  /\ pc' = "end"
  /\ UNCHANGED <<proc, videoUrl, currentVideoUrl, steps, cur, error, result, cbFails, progress, inflight,
                 actualVars, fnVars, hookVars, videoInfo, retryCount, tried, segments, analyzedSegments, idx,
                 waits, insights>>

\* step 4: prepareSegments / prepareTranscriptSegments
PrepareSegments ==
  /\ Staged({"segment"})
  /\ segments' = IF proc = "Free" THEN prepareSegments(transcriptionResult)
                 ELSE prepareTranscriptSegments(transcriptionResult)
  /\ pc' = "end"
  /\ UNCHANGED <<proc, videoUrl, currentVideoUrl, steps, cur, error, result, cbFails, progress, inflight,
                 actualVars, fnVars, hookVars, videoInfo, retryCount, tried, transcriptionResult,
                 analyzedSegments, idx, waits, insights>>

\* the step whose stage is the verification loop
LoopStep(p) ==
  CASE p = "Free" -> "kimi"
    [] p = "Real" -> "analyze"
    [] p = "Video" -> "factcheck"
    [] OTHER -> "none"

\* step 5: analyzeWithKimi / analyzeSegmentsWithKimi / factCheckClaims up to
\* the first request
StartLoop ==
  /\ pc = "stage"
  /\ steps[cur].step = LoopStep(proc)
  /\ idx' = 0
  /\ analyzedSegments' = <<>>
  /\ IF Len(segments) = 0
     THEN pc' = "end" /\ UNCHANGED inflight
     ELSE pc' = "await" /\ inflight' = OracleCall("analyzeSegment")
  /\ UNCHANGED <<proc, videoUrl, currentVideoUrl, steps, cur, error, result, cbFails, progress,
                 actualVars, fnVars, hookVars, videoInfo, retryCount, tried, transcriptionResult, segments,
                 waits, insights>>

\* a loop whose catch pushes one fixed judgment in place of the heuristic one
LoopEntryFixedOnFailure(p, i, segment, out) ==
  LET analysis == IF p = "Free" THEN analyzeSegmentWithRealKimi(out)
                  ELSE analyzeSegmentWithKimi(out)
      fixed == Judgment("Mixed", Number(50), "", Arr(<<>>), Arr(<<>>))
  IN IF p = "Video"
     THEN IF analysis.ok THEN VerifiedEntry(i, segment, out)
          ELSE VerifiedClaim(i, segment, fixed.confidence, fixed.verdict, fixed.evidence,
                             fixed.sources)
     ELSE Analyzed(segment, IF analysis.ok THEN analysis.value ELSE fixed)

\* the entry the loop pushes for a segment once its request has settled
LoopEntry(p, i, segment, out) ==
  LET analysis == IF p = "Free" THEN analyzeSegmentWithRealKimi(out)
                  ELSE analyzeSegmentWithKimi(out)
  IN IF p = "Video" THEN VerifiedEntry(i, segment, out)
     ELSE IF analysis.ok THEN Analyzed(segment, analysis.value)
     ELSE Analyzed(segment, IF p = "Free" THEN getIntelligentFallback(segment.sentence)
                            ELSE getFallbackAnalysis(segment.sentence))

\* the delays the loop awaits after a request that succeeded (ok) or failed
LoopDelay(p, ok) ==
  CASE p = "Free" -> IF ok THEN <<1200>> ELSE <<500>>
    [] p = "Real" -> IF ok THEN <<1000>> ELSE <<>>
    [] p = "Video" -> IF ok THEN <<1500>> ELSE <<>>

\* a loop that issues the next request before the entry of the settled one is
\* pushed
SegmentRespondsUnrecorded ==
  /\ Awaiting("analyzeSegment")
  /\ idx' = idx + 1
  /\ IF idx + 1 < Len(segments)
     THEN UNCHANGED <<pc, inflight, analyzedSegments, waits>>
     ELSE /\ pc' = "end" /\ inflight' = NoCall /\ UNCHANGED waits
          /\ \E out \in SegmentOutcomes :
               analyzedSegments' =
                 Append(analyzedSegments, LoopEntry(proc, idx + 1, segments[idx + 1], out))
  /\ UNCHANGED <<proc, videoUrl, currentVideoUrl, steps, cur, error, result, cbFails, progress,
                 actualVars, fnVars, hookVars, videoInfo, retryCount, tried, transcriptionResult, segments,
                 insights>>

\* the request for segments[i] settles; the loop pushes, waits and goes on to
\* the next request or returns
SegmentResponds ==
  /\ Awaiting("analyzeSegment")
  /\ \E out \in SegmentOutcomes :
       /\ analyzedSegments' =
            Append(analyzedSegments, LoopEntry(proc, idx + 1, segments[idx + 1], out))
       /\ waits' = waits \o LoopDelay(proc, ParseAnalysis(out).ok)
  /\ idx' = idx + 1
  /\ IF idx + 1 < Len(segments)
     THEN UNCHANGED <<pc, inflight>>
     ELSE pc' = "end" /\ inflight' = NoCall
  /\ UNCHANGED <<proc, videoUrl, currentVideoUrl, steps, cur, error, result, cbFails, progress,
                 actualVars, fnVars, hookVars, videoInfo, retryCount, tried, transcriptionResult, segments,
                 insights>>

\* step 6: generateInsights / synthesizeInsights
Synthesize ==
  /\ Staged({"synthesize"})
  /\ insights' = IF proc = "Free"
                 THEN generateInsights(analyzedSegments, transcriptionResult.text)
                 ELSE synthesizeInsights(analyzedSegments, transcriptionResult.text)
  /\ pc' = "end"
  /\ UNCHANGED <<proc, videoUrl, currentVideoUrl, steps, cur, error, result, cbFails, progress, inflight,
                 actualVars, fnVars, hookVars, videoInfo, retryCount, tried, transcriptionResult, segments,
                 analyzedSegments, idx, waits>>

(***************************************************************************)
(* VideoProcessor.processVideo: the stages                                 *)
(***************************************************************************)
\* detectPlatform
detectPlatform(u) ==
  CASE u.host = "youtube" -> "YouTube"
    [] u.host = "tiktok" -> "TikTok"
    [] u.host = "instagram" -> "Instagram"
    [] u.host = "facebook" -> "Facebook"
    [] u.host = "twitter" -> "Twitter/X"
    [] OTHER -> "Unknown Platform"

supportedPlatforms == {"YouTube", "TikTok", "Instagram", "Facebook", "Twitter/X"}

\* step 1: validateAndAnalyzeUrl
ValidateAndAnalyzeUrl ==
  /\ AtStage("Video", "validate")
  /\ IF ~videoUrl.parses
     THEN Throw("Invalid URL format. Please enter a complete video URL.")
          /\ UNCHANGED videoInfo
     ELSE IF detectPlatform(videoUrl) \notin supportedPlatforms
     THEN Throw("Platform is not supported") /\ UNCHANGED videoInfo
     ELSE IF ~videoUrl.http
     THEN Throw("Invalid URL protocol. Please use http:// or https://")
          /\ UNCHANGED videoInfo
     ELSE /\ videoInfo' = Info(detectPlatform(videoUrl), "", NoValue)
          /\ pc' = "end"
          /\ UNCHANGED error
  /\ UNCHANGED <<proc, videoUrl, currentVideoUrl, steps, cur, result, cbFails, progress, inflight, actualVars,
                 fnVars, hookVars, retryCount, tried, transcriptionResult, segments, analyzedSegments, idx,
                 waits, insights>>

maxRetries == 2

\* an attempt of a retry loop: whether it succeeded, the delay awaited before
\* its work and the delay awaited in the catch block before the next attempt
Attempt(name, ok, before, after) ==
  [of |-> name, ok |-> ok, before |-> before, after |-> after]

\* the attempts of the loop now running: none when it has just been entered
Tried == IF retryCount = 0 THEN <<>> ELSE tried

\* { duration: 'Unknown' }: a duration text that names no minutes and seconds
UnknownDuration == <<>>

\* a catch block of extractAudioWithRetry that counts and waits but never throws
ExtractAudioNeverThrows ==
  /\ AtStage("Video", "extract")
  /\ IF retryCount <= maxRetries
     THEN \E random \in BOOLEAN :
            IF random
            THEN /\ videoInfo' = [videoInfo EXCEPT !.duration = <<3, 45>>]
                 /\ tried' = Append(Tried, Attempt("extractAudio", TRUE, 1500 + retryCount * 500, 0))
                 /\ retryCount' = 0
                 /\ pc' = "end"
                 /\ UNCHANGED error
            ELSE /\ retryCount' = retryCount + 1
                 /\ tried' = Append(Tried, Attempt("extractAudio", FALSE, 1500 + retryCount * 500,
                                                   1000 * (retryCount + 1)))
                 /\ UNCHANGED <<pc, error, videoInfo>>
     ELSE /\ videoInfo' = [videoInfo EXCEPT !.duration = UnknownDuration]
          /\ retryCount' = 0
          /\ pc' = "end"
          /\ UNCHANGED <<error, tried>>
  /\ UNCHANGED <<proc, videoUrl, currentVideoUrl, steps, cur, result, cbFails, progress, inflight, actualVars,
                 fnVars, hookVars, transcriptionResult, segments, analyzedSegments, idx, waits,
                 insights>>

\* step 2: extractAudioWithRetry, one turn of its while loop, or the return
\* that follows the loop
ExtractAudio ==
  /\ AtStage("Video", "extract")
  /\ IF retryCount <= maxRetries
     THEN \E random \in BOOLEAN :
            IF random
            THEN /\ videoInfo' = [videoInfo EXCEPT !.duration = <<3, 45>>]
                 /\ tried' = Append(Tried, Attempt("extractAudio", TRUE, 1500 + retryCount * 500, 0))
                 /\ retryCount' = 0
                 /\ pc' = "end"
                 /\ UNCHANGED error
            ELSE IF retryCount + 1 > maxRetries
            THEN /\ Throw("Audio extraction failed after 3 attempts")
                 /\ tried' = Append(Tried, Attempt("extractAudio", FALSE, 1500 + retryCount * 500, 0))
                 /\ retryCount' = 0
                 /\ UNCHANGED videoInfo
            ELSE /\ retryCount' = retryCount + 1
                 /\ tried' = Append(Tried, Attempt("extractAudio", FALSE, 1500 + retryCount * 500,
                                                   1000 * (retryCount + 1)))
                 /\ UNCHANGED <<pc, error, videoInfo>>
     ELSE /\ videoInfo' = [videoInfo EXCEPT !.duration = UnknownDuration]
          /\ retryCount' = 0
          /\ pc' = "end"
          /\ UNCHANGED <<error, tried>>
  /\ UNCHANGED <<proc, videoUrl, currentVideoUrl, steps, cur, result, cbFails, progress, inflight, actualVars,
                 fnVars, hookVars, transcriptionResult, segments, analyzedSegments, idx, waits,
                 insights>>

\* transcribeAudio: the transcript, or a throw when new URL(videoUrl) throws
transcribeAudio(u) ==
  IF u.parses THEN Ok(generateRealisticTranscript(u)) ELSE Thrown

\* step 3: transcribeWithRetry, one turn of its while loop, or the throw that
\* follows the loop
TranscribeAudio ==
  /\ AtStage("Video", "transcribe")
  /\ IF retryCount <= maxRetries
     THEN IF transcribeAudio(videoUrl).ok
          THEN /\ transcriptionResult' = transcribeAudio(videoUrl).value
               /\ tried' = Append(Tried, Attempt("transcribeAudio", TRUE, 0, 0))
               /\ retryCount' = 0
               /\ pc' = "end"
               /\ UNCHANGED error
          ELSE IF retryCount + 1 > maxRetries
          THEN /\ Throw("Transcription failed after 3 attempts")
               /\ tried' = Append(Tried, Attempt("transcribeAudio", FALSE, 0, 0))
               /\ retryCount' = 0
               /\ UNCHANGED transcriptionResult
          ELSE /\ retryCount' = retryCount + 1
               /\ tried' = Append(Tried, Attempt("transcribeAudio", FALSE, 0, 2000 * (retryCount + 1)))
               /\ UNCHANGED <<pc, error, transcriptionResult>>
     ELSE /\ Throw("Transcription failed completely")
          /\ retryCount' = 0
          /\ UNCHANGED <<transcriptionResult, tried>>
  /\ UNCHANGED <<proc, videoUrl, currentVideoUrl, steps, cur, result, cbFails, progress, inflight,
                 actualVars, fnVars, hookVars, videoInfo, segments, analyzedSegments, idx,
                 waits, insights>>

\* step 4: extractClaimsWithRetry up to the request of extractClaims
StartClaims ==
  /\ AtStage("Video", "analyze")
  /\ inflight' = OracleCall("extractClaims")
  /\ pc' = "await"
  /\ UNCHANGED <<proc, videoUrl, currentVideoUrl, steps, cur, error, result, cbFails, progress, actualVars,
                 stagedVars, fnVars, hookVars>>

\* the request of extractClaims settles: extractClaims returns, or it rejects
\* and extractClaimsWithRetry asks again, up to maxRetries times, before it
\* returns extractClaimsFallback(transcript)
ClaimsRespondWith(out) ==
  /\ Awaiting("extractClaims")
  /\ IF ~extractClaimsRejects(out, currentVideoUrl)
     THEN /\ segments' = extractClaims(out, currentVideoUrl)
          /\ retryCount' = 0
          /\ inflight' = NoCall
          /\ pc' = "end"
     ELSE IF retryCount + 1 > maxRetries
     THEN /\ segments' = extractClaimsFallback(transcriptionResult)
          /\ retryCount' = 0
          /\ inflight' = NoCall
          /\ pc' = "end"
     ELSE /\ retryCount' = retryCount + 1
          /\ UNCHANGED <<segments, inflight, pc>>
  /\ UNCHANGED <<proc, videoUrl, currentVideoUrl, steps, cur, error, result, cbFails, progress,
                 actualVars, fnVars, hookVars, videoInfo, tried, transcriptionResult, analyzedSegments, idx,
                 waits, insights>>

\* the request settles in one of the ways the oracle can answer or fail
ClaimsRespond == \E out \in ClaimsOutcomes : ClaimsRespondWith(out)

\* another call of processVideo on the same instance runs up to its first
\* await while this run is pending at one of its awaits (the catch block
\* enters its handler without one): this.currentVideoUrl = videoUrl
ProcessVideoAgain ==
  /\ proc = "Video"
  /\ result = Pending
  /\ pc # "catch"
  /\ \E u \in VideoUrls \ {currentVideoUrl} : currentVideoUrl' = u
  /\ UNCHANGED <<proc, videoUrl, steps, cur, pc, error, result, cbFails, progress, inflight,
                 actualVars, stagedVars, fnVars, hookVars>>

\* step 6: calculateOverallScore and the processing time
Complete ==
  /\ AtStage("Video", "complete")
  /\ \E now \in Elapsed :
       insights' = [overallScore |-> calculateOverallScore(analyzedSegments),
                    processingTime |-> now]
  /\ pc' = "end"
  /\ UNCHANGED <<proc, videoUrl, currentVideoUrl, steps, cur, error, result, cbFails, progress, inflight,
                 actualVars, fnVars, hookVars, videoInfo, retryCount, tried, transcriptionResult, segments,
                 analyzedSegments, idx, waits>>

Next ==
  \/ BeginStep
  \/ ProcessVideoAgain
  \/ EndStep
  \/ HandleError
  \/ Validate
  \/ StartExtract
  \/ FetchResponds
  \/ TimeoutFires
  \/ GenerateResponds
  \/ StartAnalysis
  \/ AnalysisResponds
  \/ Compile
  \/ GetVideoInfo
  \/ InfoResponds
  \/ Download
  \/ Transcribe
  \/ PrepareSegments
  \/ StartLoop
  \/ SegmentResponds
  \/ Synthesize
  \/ ValidateAndAnalyzeUrl
  \/ ExtractAudio
  \/ TranscribeAudio
  \/ StartClaims
  \/ ClaimsRespond
  \/ Complete

Spec == Init /\ [][Next]_vars

(***************************************************************************)
(* The aggregators, the segmenters and the per-sentence sanitizers applied *)
(* on their own to bounded sets of arguments                               *)
(***************************************************************************)
Aggregators == {"generateInsights", "synthesizeInsights", "calculateOverallScore"}
Segmenters == {"prepareSegments", "prepareTranscriptSegments", "createFallbackAnalysis"}
Sanitizers == {"analyzeSegmentWithRealKimi", "analyzeSegmentWithKimi", "factCheckClaims"}
Fallbacks == {"getIntelligentFallback", "getFallbackAnalysis", "generateFallbackAnalysis"}

\* sentences the heuristic fallbacks are applied to: two that match none of
\* their patterns and three that match one
GreatWall ==
  << "T", "h", "e", " ", "G", "r", "e", "a", "t", " ", "W", "a", "l", "l", " ", "o", "f", " ", "C", "h",
     "i", "n", "a", " ", "i", "s", " ", "v", "i", "s", "i", "b", "l", "e", " ", "f", "r", "o", "m", " ",
     "s", "p", "a", "c", "e" >>
WaterBoils ==
  << "W", "a", "t", "e", "r", " ", "b", "o", "i", "l", "s", " ", "a", "t", " ", "1", "0", "0", "*", "C",
     " ", "a", "t", " ", "s", "e", "a", " ", "l", "e", "v", "e", "l" >>
WebbSentence ==
  << "T", "h", "e", " ", "J", "a", "m", "e", "s", " ", "W", "e", "b", "b", " ", "t", "e", "l", "e", "s",
     "c", "o", "p", "e", " ", "s", "e", "e", "s", " ", "e", "a", "r", "l", "y", " ", "g", "a", "l", "a",
     "x", "i", "e", "s" >>
WarmingSentence ==
  << "C", "l", "i", "m", "a", "t", "e", " ", "c", "h", "a", "n", "g", "e", " ", "r", "a", "i", "s", "e",
     "d", " ", "t", "h", "e", " ", "g", "l", "o", "b", "a", "l", " ", "t", "e", "m", "p", "e", "r", "a",
     "t", "u", "r", "e" >>
MarsSentence ==
  << "H", "u", "m", "a", "n", "s", " ", "h", "a", "v", "e", " ", "n", "e", "v", "e", "r", " ", "l", "a",
     "n", "d", "e", "d", " ", "o", "n", " ", "M", "a", "r", "s" >>
FallbackSentences == {GreatWall, WaterBoils, WebbSentence, WarmingSentence, MarsSentence}

\* 'The Great Wall of China is visible from space. Water boils at 100*C at
\* sea level.'
ScenarioTranscript == GreatWall \o <<".", " ">> \o WaterBoils \o <<".">>

\* analyzed segments, one for each verdict
AnalyzedOf(v) ==
  Analyzed(Segment(<<"segment", 0, 0>>, <<0, 0>>, <<"s">>),
           Judgment(v, Number(80), "because", Arr(<<>>), Arr(<<>>)))

VerifiedOf(v) == VerifiedClaim(1, Claim(<<"s">>, <<0, 0>>), Number(80), v, Arr(<<>>), Arr(<<>>))

\* the transcripts createFallbackAnalysis is applied to
Transcripts ==
  { <<>>, <<"H", "i", ".">>, LongSentence("a", 15), LongSentence("a", 16),
    LongSentence("a", 16) \o <<" ">> \o LongSentence("b", 21), BuiltInPassage,
    ScenarioTranscript }

\* every per-sentence response, the empty content included
SanitizerOutcomes ==
  SegmentOutcomes \cup
  { Answer(Content(<<>>, FALSE, NotJson)) } \cup
  { Answer(Content(RawJsonText, FALSE, Json(j))) : j \in OracleJudgments }

InputsOf(f) ==
  CASE f \in {"generateInsights", "synthesizeInsights"} ->
         SeqsUpTo({AnalyzedOf(v) : v \in Verdicts}, MaxSegs)
    [] f = "calculateOverallScore" -> SeqsUpTo({VerifiedOf(v) : v \in Verdicts}, MaxSegs)
    [] f \in {"prepareSegments", "prepareTranscriptSegments"} ->
         Transcriptions \cup {FreeMockTranscription, RealMockTranscription}
    [] f = "createFallbackAnalysis" -> Transcripts
    [] f \in Sanitizers -> SanitizerOutcomes
    [] f \in Fallbacks -> FallbackSentences

FnInit ==
  /\ fn \in Aggregators \cup Segmenters \cup Sanitizers \cup Fallbacks
  /\ input \in InputsOf(fn)
  /\ output = NoValue
  /\ proc = "none"
  /\ videoUrl = Url(FALSE, FALSE, "", "unknown")
  /\ currentVideoUrl = NoValue
  /\ steps = <<>>
  /\ cur = 0
  /\ pc = "idle"
  /\ error = ""
  /\ result = Pending
  /\ cbFails = 0
  /\ progress = <<>>
  /\ inflight = NoCall
  /\ method = 0
  /\ attempt = 0
  /\ calls = <<>>
  /\ generated = NoValue
  /\ transcriptData = NoValue
  /\ kimiAnalysis = NoValue
  /\ finalResults = NoValue
  /\ videoInfo = NoValue
  /\ retryCount = 0
  /\ tried = <<>>
  /\ transcriptionResult = NoValue
  /\ segments = <<>>
  /\ analyzedSegments = <<>>
  /\ idx = 0
  /\ waits = <<>>
  /\ insights = NoValue
  /\ loading = FALSE
  /\ hookError = Null
  /\ requests = <<>>

Applied(value) == [returned |-> value]

\* the overallAccuracy / overallScore an aggregator computes
ApplyAggregator ==
  /\ fn \in Aggregators
  /\ output = NoValue
  /\ output' = CASE fn = "generateInsights" ->
                      [returned |-> generateInsights(input, <<>>).overallAccuracy,
                       keyFindings |-> generateInsights(input, <<>>).keyFindings]
                 [] fn = "synthesizeInsights" ->
                      [returned |-> synthesizeInsights(input, <<>>).overallAccuracy,
                       keyFindings |-> synthesizeInsights(input, <<>>).keyFindings]
                 [] fn = "calculateOverallScore" ->
                      [returned |-> calculateOverallScore(input), keyFindings |-> <<>>]
  /\ UNCHANGED <<runVars, actualVars, stagedVars, hookVars, fn, input>>

\* the segments a segmenter returns
ApplySegmenter ==
  /\ fn \in Segmenters
  /\ output = NoValue
  /\ output' = Applied(CASE fn = "prepareSegments" -> prepareSegments(input)
                         [] fn = "prepareTranscriptSegments" ->
                              prepareTranscriptSegments(input)
                         [] fn = "createFallbackAnalysis" ->
                              createFallbackAnalysis(input).segments)
  /\ UNCHANGED <<runVars, actualVars, stagedVars, hookVars, fn, input>>

\* what the per-sentence call returns or, having thrown, what the loop pushes
ApplySanitizer ==
  /\ fn \in Sanitizers
  /\ output = NoValue
  /\ output' = Applied(CASE fn = "analyzeSegmentWithRealKimi" ->
                              analyzeSegmentWithRealKimi(input)
                         [] fn = "analyzeSegmentWithKimi" -> analyzeSegmentWithKimi(input)
                         [] fn = "factCheckClaims" ->
                              Ok(VerifiedEntry(1, Claim(<<"s">>, <<0, 0>>), input)))
  /\ UNCHANGED <<runVars, actualVars, stagedVars, hookVars, fn, input>>

\* the judgment a heuristic fallback returns for a sentence
ApplyFallback ==
  /\ fn \in Fallbacks
  /\ output = NoValue
  /\ output' = Applied(CASE fn = "getIntelligentFallback" -> getIntelligentFallback(input)
                         [] fn = "getFallbackAnalysis" -> getFallbackAnalysis(input)
                         [] fn = "generateFallbackAnalysis" ->
                              generateFallbackAnalysis(input))
  /\ UNCHANGED <<runVars, actualVars, stagedVars, hookVars, fn, input>>

FnNext ==
  \/ ApplyAggregator
  \/ ApplySegmenter
  \/ ApplySanitizer
  \/ ApplyFallback

FnSpec == FnInit /\ [][FnNext]_vars

(***************************************************************************)
(* The useOpenRouter hook                                                  *)
(***************************************************************************)
\* how many requests started through the hook may be in flight at once
MaxRequests == 3

\* the claims and texts the component passes to the hook
HookTexts == {"Water boils at 100 degrees", "Mars has two moons"}

Request(call, text) == [call |-> call, text |-> text]

\* the sequence without its k-th element
Without(seq, k) == SubSeq(seq, 1, k - 1) \o SubSeq(seq, k + 1, Len(seq))

HookInit ==
  /\ loading = FALSE
  /\ hookError = Null
  /\ requests = <<>>
  /\ fn = "none"
  /\ input = NoValue
  /\ output = NoValue
  /\ proc = "none"
  /\ videoUrl = Url(FALSE, FALSE, "", "unknown")
  /\ currentVideoUrl = NoValue
  /\ steps = <<>>
  /\ cur = 0
  /\ pc = "idle"
  /\ error = ""
  /\ result = Pending
  /\ cbFails = 0
  /\ progress = <<>>
  /\ inflight = NoCall
  /\ method = 0
  /\ attempt = 0
  /\ calls = <<>>
  /\ generated = NoValue
  /\ transcriptData = NoValue
  /\ kimiAnalysis = NoValue
  /\ finalResults = NoValue
  /\ videoInfo = NoValue
  /\ retryCount = 0
  /\ tried = <<>>
  /\ transcriptionResult = NoValue
  /\ segments = <<>>
  /\ analyzedSegments = <<>>
  /\ idx = 0
  /\ waits = <<>>
  /\ insights = NoValue

\* factCheck up to its await: setLoading(true), setError(null), the request
FactCheck ==
  /\ Len(requests) < MaxRequests
  /\ \E claim \in HookTexts : requests' = Append(requests, Request("factCheck", claim))
  /\ loading' = TRUE
  /\ hookError' = Null
  /\ UNCHANGED <<runVars, actualVars, stagedVars, fnVars>>

\* extractClaims of the hook up to its await
HookExtractClaims ==
  /\ Len(requests) < MaxRequests
  /\ \E text \in HookTexts : requests' = Append(requests, Request("extractClaims", text))
  /\ loading' = TRUE
  /\ hookError' = Null
  /\ UNCHANGED <<runVars, actualVars, stagedVars, fnVars>>

\* openRouterClient.factCheck settles: it resolves, or chatCompletion failed
\* and it rejects with 'Failed to fact-check claim'; finally setLoading(false)
FactCheckSettles ==
  /\ \E k \in 1..Len(requests) :
       /\ requests[k].call = "factCheck"
       /\ requests' = Without(requests, k)
  /\ \E ok \in BOOLEAN :
       hookError' = IF ok THEN hookError ELSE Message("Failed to fact-check claim")
  /\ loading' = FALSE
  /\ UNCHANGED <<runVars, actualVars, stagedVars, fnVars>>

\* openRouterClient.extractClaims settles, which never rejects; finally
\* setLoading(false)
ExtractClaimsSettles ==
  /\ \E k \in 1..Len(requests) :
       /\ requests[k].call = "extractClaims"
       /\ requests' = Without(requests, k)
  /\ loading' = FALSE
  /\ UNCHANGED <<runVars, actualVars, stagedVars, fnVars, hookError>>

HookNext ==
  \/ FactCheck
  \/ HookExtractClaims
  \/ FactCheckSettles
  \/ ExtractClaimsSettles

HookSpec == HookInit /\ [][HookNext]_vars

(***************************************************************************)
(* Properties                                                              *)
(***************************************************************************)
ReturnedReport == result.kind = "returned"
SuccessfulRun == ReturnedReport /\ result.via = "success"
DegradedRun == ReturnedReport /\ result.via = "handleError"

\* the judgments of a report, in order: those of its analyzed segments, or
\* the verified claims of a report of processVideo
ReportJudgments(report) ==
  IF proc = "Video" THEN report.claims
  ELSE [k \in 1..Len(report.segmentedAnalysis) |-> report.segmentedAnalysis[k].analysis]

\* the value of a verdict in hundredths (an unrecognized verdict counts as
\* the Mixed it is to be coerced to)
VerdictValue(v) ==
  CASE v = "True" -> 100
    [] v = "Mostly True" -> 80
    [] v = "Mixed" -> 50
    [] v = "Mostly False" -> 20
    [] v = "False" -> 0
    [] OTHER -> 50

RECURSIVE SumOfVerdicts(_)
SumOfVerdicts(js) ==
  IF js = <<>> THEN 0 ELSE VerdictValue(Head(js).verdict) + SumOfVerdicts(Tail(js))

\* the arithmetic mean of the verdict values, 0 if there are none
MeanOfVerdicts(js) == IF js = <<>> THEN Num(0) ELSE Quot(SumOfVerdicts(js), Len(js))

StepStatus(ss, name) ==
  LET Named(x) == x.step = name
  IN ss[FindStep(ss, Named)].status

\* C2: an invocation of an entry point that has finished has returned a
\* Report; its promise never rejects with a raw exception, whatever failed
\* during the run, the progress callback included
C2_NeverRejects == pc = "done" => ReturnedReport

\* C2: the run in which onProgress throws on the emission of the step in
\* progress and again on the emission of handleError
C2_CallbackThrowsTwice ==
  /\ result = Rejected(CallbackError)
  /\ cbFails = 2
  /\ \E k \in 1..Len(steps) : steps[k].status = "error"

\* C3: every judgment of a returned Report has one of the five verdicts
C3_VerdictsInReport ==
  ReturnedReport /\ proc \in {"Actual", "Free", "Real"} =>
    \A k \in 1..Len(ReportJudgments(result.report)) :
      ReportJudgments(result.report)[k].verdict \in Verdicts

\* C3: a Report of processActualVideo that carries the oracle's "Unverified"
C3_UnverifiedInReport ==
  /\ SuccessfulRun /\ proc = "Actual"
  /\ \E k \in 1..Len(result.report.segmentedAnalysis) :
       ReportJudgments(result.report)[k].verdict = "Unverified"

\* C4: every judgment of a returned Report has a confidence in [0, 1]
C4_ConfidenceInReport ==
  ReturnedReport /\ proc \in {"Actual", "Free", "Video"} =>
    \A k \in 1..Len(ReportJudgments(result.report)) :
      LET c == ReportJudgments(result.report)[k].confidence
      IN c.t = "number" /\ 0 <= c.v /\ c.v <= 100

\* C4: a Report of processActualVideo with the oracle's confidence 1.5
C4_ConfidenceAboveOne ==
  /\ SuccessfulRun /\ proc = "Actual"
  /\ \E k \in 1..Len(result.report.segmentedAnalysis) :
       ReportJudgments(result.report)[k].confidence = Number(150)

\* the verdicts an aggregator was applied to, as judgments
InputJudgments ==
  IF fn = "calculateOverallScore" THEN input
  ELSE [k \in 1..Len(input) |-> input[k].analysis]

\* C1: for every non-empty sequence of analyzed segments, the overallAccuracy
\* the aggregator computes is the arithmetic mean of the verdict values
\* True=1.0, Mostly True=0.8, Mixed=0.5, Mostly False=0.2, False=0.0
C1_AggregatorIsMean ==
  fn \in Aggregators /\ output # NoValue /\ Len(input) > 0 =>
    QuotEq(output.returned, MeanOfVerdicts(InputJudgments))

\* C1: generateInsights applied to a single False segment returns 0.5
C1_AllFalseGivesHalf ==
  /\ fn = "generateInsights"
  /\ input = <<AnalyzedOf("False")>>
  /\ output # NoValue
  /\ output.returned = Quot(50, 1)

\* C5: a segmenter returns a non-empty segment sequence for any input text
C5_SegmenterNonEmpty ==
  fn \in Segmenters /\ output # NoValue => output.returned # <<>>

\* C5: prepareSegments applied to a transcription whose only sentence is "Hi"
\* returns no segment
C5_NoSegmentReturned ==
  /\ fn = "prepareSegments"
  /\ input = Transcription(<<TSegment(0, 2000, <<"H", "i", ".">>)>>)
  /\ output = Applied(<<>>)

\* the transcript of the run came from kimiGenerateContent: every
\* acquisition strategy had failed
GenerativePath ==
  /\ proc = "Actual"
  /\ transcriptData # NoValue
  /\ transcriptData.description # "Real transcript extracted"

\* C6: once all four strategies have failed, whatever the generative call
\* settles to, the cascade returns a non-empty transcript without throwing,
\* the extract step ends completed and never error, and a returned Report has
\* a non-empty fullTranscript
C6_CascadeNeverFails ==
  GenerativePath =>
    /\ transcriptData.transcript # <<>>
    /\ \/ pc = "end" /\ steps[cur].step = "extract"
          /\ StepStatus(steps, "extract") = "processing"
       \/ StepStatus(steps, "extract") = "completed"
    /\ ReturnedReport => result.report.fullTranscript # <<>>

\* C6: a successful run whose transcript is the built-in passage, returned
\* after every fetch and the generative call had failed
C6_BuiltInPassageReported ==
  /\ SuccessfulRun /\ proc = "Actual"
  /\ Len(calls) > 0
  /\ result.report.fullTranscript = BuiltInPassage
  /\ StepStatus(result.report.steps, "extract") = "completed"

\* the verification loop of a staged run has issued its first request
LoopEntered ==
  /\ proc \in {"Free", "Real", "Video"}
  /\ Awaiting("analyzeSegment") \/ analyzedSegments # <<>>

\* the verification loop of a staged run has returned
LoopReturned == LoopEntered /\ ~Awaiting("analyzeSegment")

\* entry carries the fields of segment unchanged (and, in processVideo, the
\* number k of the claim)
KeepsFields(entry, segment, k) ==
  IF proc = "Video"
  THEN entry.id = k /\ entry.text = segment.text /\ entry.timestamp = segment.timestamp
  ELSE /\ entry.segment = segment.segment
       /\ entry.timestamp = segment.timestamp
       /\ entry.sentence = segment.sentence

JudgmentOf(entry) ==
  IF proc = "Video"
  THEN Judgment(entry.verdict, entry.confidence, "", entry.evidence, entry.sources)
  ELSE entry.analysis

\* the sentences the verification loop of processor p can be handed
LoopSentences(p) ==
  CASE p = "Free" ->
         {prepareSegments(FreeMockTranscription)[k].sentence
            : k \in 1..Len(prepareSegments(FreeMockTranscription))}
    [] p = "Real" ->
         {prepareTranscriptSegments(RealMockTranscription)[k].sentence
            : k \in 1..Len(prepareTranscriptSegments(RealMockTranscription))}
    [] p = "Video" ->
         UNION {{extractClaims(out, u)[k].text : k \in 1..Len(extractClaims(out, u))}
                  : out \in ClaimsOutcomes, u \in VideoUrls}
         \cup UNION {LET claims == extractClaimsFallback(generateRealisticTranscript(u))
                      IN {claims[k].text : k \in 1..Len(claims)}
                       : u \in UrlsOf("Video")}

\* the heuristic judgment of each of them
Heuristics ==
  [p \in {"Free", "Real", "Video"} |->
    [sentence \in LoopSentences(p) |->
      CASE p = "Free" -> getIntelligentFallback(sentence)
        [] p = "Real" -> getFallbackAnalysis(sentence)
        [] p = "Video" -> generateFallbackAnalysis(sentence)]]

\* the heuristic judgment of a segment
HeuristicOf(segment) ==
  Heuristics[proc][IF proc = "Video" THEN segment.text ELSE segment.sentence]

\* the judgments the loop of processor p can take from a response: those the
\* per-sentence call returns for the responses it accepts
Accepted ==
  [p \in {"Free", "Real", "Video"} |->
    LET maxEvidence == IF p = "Real" THEN 3 ELSE 4
        maxSources == IF p = "Real" THEN 2 ELSE 3
        taken == {Sanitize(ParseAnalysis(out).value, maxEvidence, maxSources)
                    : out \in {o \in SegmentOutcomes : ParseAnalysis(o).ok}}
    IN IF p = "Video" THEN {[j EXCEPT !.explanation = ""] : j \in taken} ELSE taken]

\* the judgment is the sanitized form of one the oracle sent
FromOracle(judgment) == judgment \in Accepted[proc]

\* C7: whatever requests of the verification loop fail, the loop returns one
\* entry per input segment, in input order, each with its segment's fields
\* unchanged and with either a sanitized oracle judgment or the heuristic
\* judgment of that segment, and the verification step is never error
C7_OneJudgmentPerSegment ==
  LoopEntered =>
    /\ Len(analyzedSegments) = idx
    /\ idx <= Len(segments)
    /\ LoopReturned => Len(analyzedSegments) = Len(segments)
    /\ \A k \in 1..Len(analyzedSegments) :
         /\ KeepsFields(analyzedSegments[k], segments[k], k)
         /\ \/ JudgmentOf(analyzedSegments[k]) = HeuristicOf(segments[k])
            \/ FromOracle(JudgmentOf(analyzedSegments[k]))
    /\ proc = "Free" =>
         /\ Len(waits) = idx
         /\ \A k \in 1..idx :
              IF waits[k] = 500
              THEN JudgmentOf(analyzedSegments[k]) = HeuristicOf(segments[k])
              ELSE waits[k] = 1200 /\ FromOracle(JudgmentOf(analyzedSegments[k]))
    /\ StepStatus(steps, LoopStep(proc)) \in {"processing", "completed"}
    /\ (ReturnedReport \/ steps[cur].step # LoopStep(proc)) =>
         StepStatus(steps, LoopStep(proc)) = "completed"

\* C7: a run of processVideoFree in which every request of the loop failed
\* and that returned a success Report with the heuristic judgment of each of
\* the six segments
C7_AllCallsFailed ==
  /\ SuccessfulRun /\ proc = "Free"
  /\ waits = <<500, 500, 500, 500, 500, 500>>
  /\ Len(result.report.segmentedAnalysis) = 6
  /\ \A k \in 1..6 :
       result.report.segmentedAnalysis[k].analysis = getIntelligentFallback(segments[k].sentence)

\* the statuses of a step list
Statuses(ss) == [k \in 1..Len(ss) |-> ss[k].status]

\* C8 (as stated): in a returned Report every step is completed or error
C8_EveryStepEnded ==
  ReturnedReport =>
    \A k \in 1..Len(result.report.steps) :
      result.report.steps[k].status \in {"completed", "error"}

\* C8 (amended): in a returned Report no step is processing; the steps of a
\* success Report are all completed; those of a degraded Report are
\* completed up to some step, which is error or pending, and pending after it
C8_NoStepInProgress ==
  ReturnedReport =>
    LET st == Statuses(result.report.steps)
        n == Len(st)
    IN /\ \A k \in 1..n : st[k] # "processing"
       /\ SuccessfulRun => \A k \in 1..n : st[k] = "completed"
       /\ DegradedRun =>
            \E j \in 0..n :
              /\ \A k \in 1..j : st[k] = "completed"
              /\ j < n => st[j + 1] \in {"error", "pending"}
              /\ \A k \in (j + 2)..n : st[k] = "pending"

\* C8: a degraded Report of processVideoFree whose first step is error and
\* whose five other steps are still pending
C8_PendingStepsReported ==
  /\ DegradedRun /\ proc = "Free"
  /\ Statuses(result.report.steps)
       = <<"error", "pending", "pending", "pending", "pending", "pending">>

\* C9: every external call of processActualVideo is bounded by a timeout:
\* while the run awaits one, the timeout can fire
C9_EveryCallTimesOut ==
  proc = "Actual" /\ pc = "await" => ENABLED TimeoutFires

\* C9: the run awaits the analysis call, and without a response nothing more
\* happens
C9_AnalysisCallUnbounded ==
  /\ proc = "Actual"
  /\ Awaiting("analyze")
  /\ inflight.timer = 0
  /\ ~ENABLED (BeginStep \/ EndStep \/ HandleError \/ TimeoutFires)

\* C10: in a success Report of processActualVideo, overallAccuracy is the
\* arithmetic mean of the verdict values of the Report's segments
C10_AccuracyIsMean ==
  SuccessfulRun /\ proc = "Actual" =>
    QuotEq(result.report.overallAccuracy, MeanOfVerdicts(ReportJudgments(result.report)))

\* C10: a success Report from the fallback analysis: segments that are all
\* Mixed, and an overallAccuracy of 0.6
C10_FallbackAccuracy ==
  /\ SuccessfulRun /\ proc = "Actual"
  /\ Len(result.report.segmentedAnalysis) > 0
  /\ \A k \in 1..Len(result.report.segmentedAnalysis) :
       /\ result.report.segmentedAnalysis[k].segment[1] = "fallback"
       /\ result.report.segmentedAnalysis[k].analysis.verdict = "Mixed"
  /\ result.report.overallAccuracy = Num(60)

\* the status changes of a step that the step machine allows
StepTransitions ==
  { <<"pending", "processing">>, <<"processing", "completed">>, <<"processing", "error">> }

\* C11: during a run every status change of a step is pending to processing,
\* processing to completed or processing to error, so completed and error are
\* never left and no step goes from pending straight to completed or error;
\* the step list keeps its length and its step names
C11_StepTransitions ==
  [][ /\ Len(steps') = Len(steps)
      /\ \A k \in 1..Len(steps) :
           /\ steps'[k].step = steps[k].step
           /\ steps'[k].status # steps[k].status =>
                <<steps[k].status, steps'[k].status>> \in StepTransitions ]_vars

\* C11: a run of processActualVideo whose first step went from pending through
\* processing to completed and whose second went through processing to error
C11_CompletedThenError ==
  /\ DegradedRun /\ proc = "Actual"
  /\ Statuses(steps) = <<"completed", "error", "pending", "pending">>
  /\ Len(progress) = 4

\* the steps whose status changes in the step at hand
Changed == {k \in 1..Len(steps) : steps'[k].status # steps[k].status}

\* the snapshot of the latest emission, as the callback read it
LastSeen(emissions) == emissions[Len(emissions)].seen

\* C12: the progress callback is invoked exactly once for every status
\* transition of a step and only then, with the full step list as it is right
\* after the transition; a step has been reported as processing when its stage
\* is invoked, and every step before one reported as processing has been
\* reported as completed
C12_EmissionPerTransition ==
  [][ /\ Changed # {} =>
           /\ Cardinality(Changed) = 1
           /\ Len(progress') = Len(progress) + 1
           /\ SubSeq(progress', 1, Len(progress)) = progress
           /\ LastSeen(progress') = steps'
      /\ progress' # progress => Changed # {}
      /\ pc' = "stage" => LastSeen(progress')[cur'].status = "processing"
      /\ progress' # progress =>
           \A k \in 2..Len(steps') :
             LastSeen(progress')[k].status = "processing" =>
               /\ progress # <<>>
               /\ LastSeen(progress)[k - 1].status = "completed"
               /\ LastSeen(progress)[k].status = "pending" ]_vars

\* C12: a run of processActualVideo that returned a success Report after the
\* callback was called for each of its eight status transitions
C12_EightEmissions ==
  /\ SuccessfulRun /\ proc = "Actual"
  /\ Len(progress) = 8
  /\ \A k \in 1..4 :
       /\ progress[2 * k - 1].seen[k].status = "processing"
       /\ progress[2 * k].seen[k].status = "completed"

\* C13: a snapshot the callback received keeps the statuses and messages it
\* had at its emission, whatever step transitions follow in the run
C13_SnapshotsKeepValues ==
  \A i \in 1..Len(progress) : ReadNow(progress[i]) = progress[i].seen

\* C13: the first snapshot of a run showed its first step as processing when
\* it was received, and shows it as completed now
C13_FirstSnapshotChanged ==
  /\ Len(progress) >= 2
  /\ progress[1].seen[1].status = "processing"
  /\ ReadNow(progress[1])[1].status = "completed"

\* C14: when a stage throws, the error handler sets to error the step whose
\* stage threw, which is the one step in progress, puts the failure message in
\* its message, leaves the status and message of every other step as they are,
\* and calls the progress callback exactly once more, with that step list
C14_HandlerMarksFailedStep ==
  [][ pc = "catch" /\ error # CallbackError =>
        /\ {k \in 1..Len(steps) : steps[k].status = "processing"} = {cur}
        /\ steps' = [steps EXCEPT ![cur].status = "error", ![cur].message = ErrMsg(error)]
        /\ Len(progress') = Len(progress) + 1
        /\ SubSeq(progress', 1, Len(progress)) = progress
        /\ LastSeen(progress') = steps' ]_vars

\* C14: processActualVideo was given a reference that is no YouTube URL: the
\* validate stage threw, the handler marked validate and emitted once, and the
\* three other steps are as they were at the start
C14_FailedStepMarked ==
  /\ pc = "done" /\ proc = "Actual" /\ error = NotYouTube
  /\ steps[1].status = "error"
  /\ steps[1].message = ErrMsg(NotYouTube)
  /\ \A k \in 2..4 : steps[k] = InitialSteps("Actual")[k]
  /\ Len(progress) = 2

\* the key findings that suggest a retry
RetrySuggestions ==
  { Finding("Please try a different video URL", 0, <<>>),
    Finding("Please try again with a different video URL", 0, <<>>) }

\* C15: every degraded Report of processActualVideo, processVideoFree and
\* processVideoReal has an empty segmentedAnalysis, an overallAccuracy of 0 and
\* keyFindings with both the error message and a retry suggestion
C15_DegradedReportShape ==
  DegradedRun /\ proc \in {"Actual", "Free", "Real"} =>
    LET report == result.report
    IN /\ report.segmentedAnalysis = <<>>
       /\ report.overallAccuracy = Num(0)
       /\ \E k \in 1..Len(report.keyFindings) : report.keyFindings[k].s = <<error>>
       /\ \E k \in 1..Len(report.keyFindings) : report.keyFindings[k] \in RetrySuggestions

\* C15: a degraded Report of processVideoReal: its one key finding is the
\* error message
C15_NoRetrySuggestion ==
  /\ DegradedRun /\ proc = "Real"
  /\ result.report.segmentedAnalysis = <<>>
  /\ result.report.overallAccuracy = Num(0)
  /\ result.report.keyFindings = <<Finding("Processing failed", 0, <<error>>)>>

Call(ref, lang) == [ref |-> ref, lang |-> lang]

\* the fetches of the four strategies in the order of the source: strategy 1
\* per language, then, for a reference with a video id, strategy 2, strategy 3
\* per URL format and strategy 4
CascadeOrder(u) ==
  << Call("videoUrl", "en"), Call("videoUrl", "en-US"), Call("videoUrl", "en-GB"),
     Call("videoUrl", "auto") >>
  \o IF extractVideoId(u) = "unknown" THEN <<>>
     ELSE << Call("videoId", ""),
             Call("watchUrl", ""), Call("shortUrl", ""), Call("videoId", ""),
             Call("videoId", "en") >>

\* the strategy that issues the n-th fetch of the cascade
StrategyOf(n) == IF n <= 4 THEN 1 ELSE IF n = 5 THEN 2 ELSE IF n <= 8 THEN 3 ELSE 4

\* a strategy has returned its transcript
StrategySucceeded ==
  transcriptData # NoValue /\ transcriptData.description = "Real transcript extracted"

\* C16: extractRealTranscript attempts its strategies strictly in the order
\* 1, 2, 3, 4: the fetches issued so far are an initial part of the cascade's
\* order, a fetch or the generative call is started only while no strategy has
\* succeeded and only when the fetch before it has settled without a
\* transcript, and once a strategy has succeeded its content is what the
\* cascade returned and nothing more is invoked
C16_StrategiesInOrder ==
  [][ proc = "Actual" =>
        /\ Len(calls') <= Len(CascadeOrder(videoUrl))
        /\ calls' = SubSeq(CascadeOrder(videoUrl), 1, Len(calls'))
        /\ Len(calls') > 0 => method' = StrategyOf(Len(calls')) \/ inflight'.call # "fetchTranscript"
        /\ method' >= method
        /\ calls' # calls =>
             /\ Len(calls') = Len(calls) + 1
             /\ transcriptData = NoValue /\ transcriptData' = NoValue
             /\ calls # <<>> => inflight.call = "fetchTranscript"
        /\ inflight'.call = "generate" /\ inflight.call # "generate" =>
             transcriptData = NoValue /\ transcriptData' = NoValue
        /\ StrategySucceeded =>
             /\ transcriptData' = transcriptData
             /\ calls' = calls
             /\ inflight'.call \notin {"fetchTranscript", "generate"}
        /\ StrategySucceeded' /\ ~StrategySucceeded =>
             /\ transcriptData'.title = MethodNames[method]
             /\ method = StrategyOf(Len(calls))
             /\ calls' = calls
             /\ inflight' = NoCall ]_vars

\* C16: a run of processActualVideo in which the four fetches of strategy 1
\* failed and strategy 2 succeeded: five fetches, and a success Report with
\* the transcript of strategy 2
C16_SecondStrategySucceeded ==
  /\ SuccessfulRun /\ proc = "Actual"
  /\ Len(calls) = 5
  /\ transcriptData.title = "Video ID"
  /\ result.report.fullTranscript = transcriptData.transcript

\* C17: within one run of extractRealTranscript no transcript fetch is issued
\* twice with the same reference and the same options
C17_NoFetchRepeated ==
  \A i, j \in 1..Len(calls) : i # j => calls[i] # calls[j]

\* C17: the fetch of strategy 2 (the video id, no options) failed, and the
\* third URL format of strategy 3 is that same fetch again
C17_VideoIdFetchedTwice ==
  /\ proc = "Actual"
  /\ Len(calls) >= 8
  /\ calls[5] = Call("videoId", "")
  /\ calls[8] = calls[5]
  /\ method = 3 /\ attempt = 3

\* the generative call answered with content
YieldedContent(out) == out.kind = "content" /\ out.content.raw # <<>>

\* C18: the generative call is made only after all four strategies have
\* failed; the built-in passage is the transcript exactly when that call
\* failed or yielded no content; and when it yielded content the transcript is
\* that content: its text, or the transcript the text carries as JSON
C18_GenerativeThenBuiltIn ==
  proc = "Actual" =>
    /\ inflight.call = "generate" \/ generated # NoValue =>
         /\ calls = CascadeOrder(videoUrl)
         /\ ~StrategySucceeded
    /\ generated = NoValue /\ transcriptData # NoValue => StrategySucceeded
    /\ generated # NoValue =>
         /\ transcriptData # NoValue
         /\ transcriptData.transcript = BuiltInPassage <=> ~YieldedContent(generated)
         /\ YieldedContent(generated) =>
              \/ transcriptData.transcript = generated.content.raw
              \/ /\ generated.content.json.ok /\ ~generated.content.json.isNull
                 /\ generated.content.json.value.transcript # <<>>
                 /\ transcriptData.transcript = generated.content.json.value.transcript

\* C18: all nine fetches of the cascade failed, the generative call answered
\* with a text that is no JSON, and the success Report carries that text
C18_GeneratedTextReported ==
  /\ SuccessfulRun /\ proc = "Actual"
  /\ Len(calls) = 9
  /\ generated = Answer(Content(GeneratedText, FALSE, NotJson))
  /\ result.report.fullTranscript = GeneratedText

\* C19: whenever one of the four strategies is treated as successful, the
\* transcript text it returns is non-empty
C19_SuccessHasText ==
  proc = "Actual" /\ StrategySucceeded => transcriptData.transcript # <<>>

\* C19: the first fetch answered with one caption item without text;
\* strategy 1 returned it, and the success Report has an empty fullTranscript
C19_EmptyTranscriptReported ==
  /\ SuccessfulRun /\ proc = "Actual"
  /\ Len(calls) = 1
  /\ transcriptData.title = "Direct URL"
  /\ result.report.fullTranscript = <<>>

\* C20: in the verification loop, when a request has settled and another one
\* follows, a delay is awaited between the two, and it is as long as every
\* delay awaited before it in the loop, whether the request succeeded or failed
C20_SameDelayBetweenCalls ==
  [][ /\ proc \in {"Free", "Real", "Video"}
      /\ Awaiting("analyzeSegment")
      /\ idx' = idx + 1
      /\ idx' < Len(segments)
      => /\ Len(waits') = Len(waits) + 1
         /\ \A k \in 1..Len(waits) : waits'[Len(waits')] = waits[k] ]_vars

\* C20: in processVideoFree the first request succeeded and the second failed:
\* 1200 ms were awaited before the second request and 500 ms before the third,
\* which is now in flight
C20_ShorterDelayAfterFailure ==
  /\ proc = "Free"
  /\ Awaiting("analyzeSegment")
  /\ idx = 2
  /\ waits = <<1200, 500>>
  /\ analyzedSegments[2].analysis = getIntelligentFallback(segments[2].sentence)

\* the requests the verification loop has issued so far
LoopCallsIssued == idx + IF Awaiting("analyzeSegment") THEN 1 ELSE 0

\* one step of the verification loop, as the loop of the three staged
\* pipelines takes it
OneCallAtATime ==
  \/ proc \notin {"Free", "Real", "Video"}
  \/ /\ inflight'.call = "analyzeSegment" =>
          /\ Len(analyzedSegments') = idx'
          /\ idx' < Len(segments')
     /\ idx' # idx =>
          /\ Awaiting("analyzeSegment")
          /\ idx' = idx + 1
          /\ Len(analyzedSegments) = idx
          /\ Len(analyzedSegments') = idx'
          /\ SubSeq(analyzedSegments', 1, idx) = analyzedSegments
          /\ KeepsFields(analyzedSegments'[idx'], segments[idx'], idx')
     /\ analyzedSegments' # analyzedSegments /\ analyzedSegments' # <<>> => idx' # idx
     /\ LoopCallsIssued' - Len(analyzedSegments') \in {0, 1}

\* C21: the verification loop handles the segments one at a time in their
\* order: a request is in flight only for the segment after the last one whose
\* judgment is recorded, the index moves on by one and only when the request in
\* flight has settled and its entry has been pushed after the earlier ones, so
\* at most one request of the run is unsettled at any time
C21_OneCallAtATime ==
  [][OneCallAtATime]_vars

\* C21: processVideoReal has recorded the judgments of its first two segments
\* and the request for the third is in flight
C21_ThirdCallInFlight ==
  /\ proc = "Real"
  /\ Awaiting("analyzeSegment")
  /\ idx = 2
  /\ Len(analyzedSegments) = 2
  /\ Len(segments) > 2
  /\ \A k \in 1..2 : analyzedSegments[k].sentence = segments[k].sentence

\* the texts of the claims of a report of processVideo, in order
ClaimTexts(claims) == [k \in 1..Len(claims) |-> claims[k].text]

\* C22: a report of processVideo is determined by the run's own videoUrl and
\* the responses to its own requests, whatever other calls the instance
\* serves meanwhile: the built-in claims it carries are those of its own
\* videoUrl (the three of a TikTok URL, the two of any other URL), and it
\* never carries the claims of the transcript's own sentences, which only
\* an unreadable URL leads to
C22_ReportFromOwnUrl ==
  (proc = "Video" /\ SuccessfulRun) =>
    LET texts == ClaimTexts(result.report.claims)
    IN /\ texts = ClaimTexts(TikTokClaims) => videoUrl.host = "tiktok"
       /\ texts = ClaimTexts(OtherClaims) => videoUrl.host # "tiktok"
       /\ texts # ClaimTexts(extractClaimsFallback(transcriptionResult))

\* C22: processVideo was called for a YouTube URL, another call on the same
\* instance stored a TikTok URL before the claim extraction failed, and the
\* report carries the three built-in TikTok claims
C22_OtherRunsClaimsReported ==
  /\ proc = "Video"
  /\ SuccessfulRun
  /\ videoUrl.host = "youtube"
  /\ currentVideoUrl.host = "tiktok"
  /\ ClaimTexts(result.report.claims) = ClaimTexts(TikTokClaims)

\* a report without its processingTime field
ExceptTime(report) == [f \in DOMAIN report \ {"processingTime"} |-> report[f]]

\* the report processActualVideo returns from the values this run has
\* computed, had the clock read now when the report was built
ReportAt(now) ==
  IF SuccessfulRun
  THEN [compileKimiResults(kimiAnalysis, transcriptData,
                           VideoId(extractVideoId(videoUrl), 0), now) EXCEPT !.steps = steps]
  ELSE ActualErrorReport(error, steps, now)

\* C23: two runs of processActualVideo on the same reference with the same
\* responses return reports that agree in every field but processingTime:
\* whatever the clock reads when the report is built, its videoId,
\* fullTranscript, segmentedAnalysis, overallAccuracy, keyFindings and the
\* other fields are the ones this run returned
C23_SameReportButTime ==
  (proc = "Actual" /\ ReturnedReport) =>
    /\ \E now \in Elapsed : result.report = ReportAt(now)
    /\ \A now \in Elapsed : ExceptTime(ReportAt(now)) = ExceptTime(result.report)

\* C23: a successful run of processActualVideo whose last key finding states
\* the processing time the clock gave
C23_TimeInKeyFindings ==
  /\ proc = "Actual"
  /\ SuccessfulRun
  /\ result.report.processingTime = 2
  /\ result.report.keyFindings[Len(result.report.keyFindings)] =
       Finding("Processing time", 2, <<>>)
  /\ ExceptTime(ReportAt(1)) # ExceptTime(result.report)

\* C24: an aggregator handed no analyzed segment returns the number 0 as
\* overall accuracy, not NaN and not undefined
C24_EmptyGivesZero ==
  (fn \in Aggregators /\ output # NoValue /\ Len(input) = 0) =>
    /\ ~IsNaN(output.returned)
    /\ QuotEq(output.returned, Num(0))

\* C24: generateInsights applied to the empty list of analyzed segments has
\* divided 0 by 0
C24_EmptyGivesNaN ==
  /\ fn = "generateInsights"
  /\ input = <<>>
  /\ output # NoValue
  /\ IsNaN(output.returned)
  /\ output.returned = Quot(0, 0)

\* C25: every judgment of a report of processVideoFree, processVideo and
\* processActualVideo has at most 4 evidence items and at most 3 sources
C25_EvidenceAndSourcesCapped ==
  (ReturnedReport /\ proc \in {"Free", "Video", "Actual"}) =>
    \A k \in 1..Len(ReportJudgments(result.report)) :
      /\ Len(ReportJudgments(result.report)[k].evidence.items) <= 4
      /\ Len(ReportJudgments(result.report)[k].sources.items) <= 3

\* C25: a report of processActualVideo with a judgment the oracle gave five
\* evidence items and four sources
C25_FiveEvidenceItemsReported ==
  /\ SuccessfulRun /\ proc = "Actual"
  /\ \E k \in 1..Len(result.report.segmentedAnalysis) :
       /\ Len(result.report.segmentedAnalysis[k].analysis.evidence.items) = 5
       /\ Len(result.report.segmentedAnalysis[k].analysis.sources.items) = 4

\* the source entries of the judgments of a report
ReportSources(report) ==
  UNION { {ReportJudgments(report)[k].sources.items[i]
             : i \in 1..Len(ReportJudgments(report)[k].sources.items)}
          : k \in 1..Len(ReportJudgments(report)) }

\* C26: every source entry of a returned report has a reliability that is a
\* number between 0 and 1, a reliability the oracle gave outside that range
\* having been clamped into it
C26_ReliabilityInRange ==
  ReturnedReport =>
    \A source \in ReportSources(result.report) :
      /\ source.reliability.t = "number"
      /\ 0 <= source.reliability.v
      /\ source.reliability.v <= 100

\* C26: a report of processVideoFree with a judgment that passed the
\* sanitizing return and keeps the oracle's reliability 1.5
C26_ReliabilityAboveOne ==
  /\ SuccessfulRun /\ proc = "Free"
  /\ \E k \in 1..Len(result.report.segmentedAnalysis) :
       /\ waits[k] = 1200
       /\ result.report.segmentedAnalysis[k].analysis.verdict = "False"
       /\ result.report.segmentedAnalysis[k].analysis.sources = Arr(<<Source(150)>>)

\* the words one of which every pattern of the three heuristic fallbacks
\* asks for
PatternWords == {JamesWebb, DarkEnergy, Climate, Mars, Universe, GlobalWarming}

\* the sentence matches none of the known factual patterns
MatchesNoPattern(sentence) == \A w \in PatternWords : ~Includes(Lower(sentence), w)

\* C27: for a sentence that matches none of the known patterns the heuristic
\* judgment has the verdict Mixed, the low confidence 0.6 (below that of
\* every pattern's judgment) and no sources
C27_DefaultIsMixedNoSources ==
  (fn \in Fallbacks /\ output # NoValue /\ MatchesNoPattern(input)) =>
    /\ output.returned.verdict = "Mixed"
    /\ output.returned.confidence = Number(60)
    /\ output.returned.sources = Arr(<<>>)

\* C27: getIntelligentFallback applied to the Great Wall sentence, which
\* matches no pattern, returns a judgment that names a source
C27_DefaultNamesASource ==
  /\ fn = "getIntelligentFallback"
  /\ input = GreatWall
  /\ MatchesNoPattern(input)
  /\ output # NoValue
  /\ output.returned.verdict = "Mixed"
  /\ output.returned.sources = Arr(<<Src("General Fact-Check Analysis", "#", 70)>>)

\* the judgments the heuristics give the boiling-point sentence: that of a
\* per-sentence fallback, or those createFallbackAnalysis gives the segments
\* of the scenario transcript with that sentence
BoilingPointJudgments ==
  IF fn \in Fallbacks /\ input = WaterBoils THEN {output.returned}
  ELSE IF fn = "createFallbackAnalysis" /\ input = ScenarioTranscript
  THEN {output.returned[k].analysis
          : k \in {i \in 1..Len(output.returned) : output.returned[i].sentence = WaterBoils}}
  ELSE {}

\* C28: with the oracle unreachable the heuristic fallback gives the sentence
\* 'Water boils at 100*C at sea level' the verdict True with a high
\* confidence, that of a known pattern and not the default Mixed
C28_BoilingPointIsTrue ==
  output # NoValue =>
    \A j \in BoilingPointJudgments :
      /\ j.verdict = "True"
      /\ j.confidence.v >= 90

\* C28: getFallbackAnalysis applied to the boiling-point sentence returns the
\* default Mixed judgment with confidence 0.6
C28_BoilingPointIsMixed ==
  /\ fn = "getFallbackAnalysis"
  /\ input = WaterBoils
  /\ output # NoValue
  /\ output.returned.verdict = "Mixed"
  /\ output.returned.confidence = Number(60)

\* the steps of ss before the first one that has not completed
CompletedPrefix(ss) ==
  Cardinality({k \in 1..Len(ss) : \A j \in 1..k : ss[j].status = "completed"})

\* zero or more completed steps, then at most one step that is processing or
\* error, then only pending steps
StepListShape(ss) ==
  /\ \A k \in 1..Len(ss) : ss[k].status \in {"pending", "processing", "completed", "error"}
  /\ \A k \in (CompletedPrefix(ss) + 2)..Len(ss) : ss[k].status = "pending"

\* C29: at every point of a run the step list is zero or more completed
\* steps, then at most one step that is processing or error, then only pending
\* steps; so at most one step is processing, and every step before a step
\* that is processing is completed
C29_StepListShape ==
  proc \in Processors =>
    /\ StepListShape(steps)
    /\ Cardinality({k \in 1..Len(steps) : steps[k].status = "processing"}) <= 1
    /\ \A k \in 1..Len(steps) :
         steps[k].status = "processing" =>
           \A j \in 1..(k - 1) : steps[j].status = "completed"

\* C29: processVideo is at its fourth stage: three steps completed, the
\* fourth processing, the last two pending
C29_FourthStepInProgress ==
  /\ proc = "Video"
  /\ pc = "await"
  /\ Statuses(steps) =
       <<"completed", "completed", "completed", "processing", "pending", "pending">>

\* the step names of a step list, in order
StepNames(ss) == [k \in 1..Len(ss) |-> ss[k].step]

\* C30: the step list created at the start of the run has, in every snapshot
\* the progress callback received and in the steps field of the returned
\* report, the length and the step names, in the same order, that it was
\* created with: no step is added, removed or moved
C30_StepListFixed ==
  proc \in Processors =>
    LET created == StepNames(InitialSteps(proc))
    IN /\ StepNames(steps) = created
       /\ \A i \in 1..Len(progress) :
            /\ StepNames(progress[i].seen) = created
            /\ StepNames(ReadNow(progress[i])) = created
       /\ ReturnedReport => StepNames(result.report.steps) = created

\* C30: a successful run of processVideoFree: twelve snapshots of six steps
\* each and a report with the six steps
C30_SixStepsReported ==
  /\ proc = "Free"
  /\ SuccessfulRun
  /\ Len(progress) = 12
  /\ Len(progress[1].seen) = 6
  /\ Len(result.report.steps) = 6
  /\ StepNames(result.report.steps) =
       <<"validate", "download", "whisper", "segment", "kimi", "synthesize">>

\* the accuracy bucket of an overall accuracy
AccuracyBucket(q) ==
  IF ~IsNaN(q) /\ q.num >= 80 * q.den THEN "primarily accurate"
  ELSE IF ~IsNaN(q) /\ q.num >= 60 * q.den THEN "mixed accuracy"
  ELSE "questionable"

\* the key findings with one of the given texts
FindingsNamed(findings, texts) ==
  {findings[k] : k \in {i \in 1..Len(findings) : findings[i].text \in texts}}

\* r is the mean of the confidences of the input, in percent, rounded
IsMeanConfidence(r) ==
  LET total == SumConfidence(InputJudgments)
      n == Len(input)
  IN /\ r \in [num : Int, den : {1}]
     /\ 2 * r.num * n - 2 * total <= n
     /\ 2 * total - 2 * r.num * n <= n

\* C31: for a non-empty sequence of analyzed segments the key findings of
\* generateInsights and synthesizeInsights state the number of segments, the
\* number of True and of False verdicts, the mean confidence and the accuracy
\* bucket of the overall accuracy: 'primarily accurate' from 0.8, 'mixed
\* accuracy' from 0.6, 'questionable' below
C31_KeyFindingsComplete ==
  (fn \in {"generateInsights", "synthesizeInsights"} /\ output # NoValue /\ Len(input) > 0) =>
    LET trueCount == Cardinality({k \in 1..Len(input) : input[k].analysis.verdict = "True"})
        falseCount == Cardinality({k \in 1..Len(input) : input[k].analysis.verdict = "False"})
        findings == output.keyFindings
    IN /\ findings[1].n = Len(input)
       /\ \E f \in FindingsNamed(findings,
                                  {"claims verified as accurate, identified as inaccurate",
                                   "claims verified as accurate"}) : f.n = trueCount
       /\ \/ \E f \in FindingsNamed(findings,
                                     {"claims verified as accurate, identified as inaccurate"}) :
                f.s = <<falseCount>>
          \/ \E f \in FindingsNamed(findings, {"claims identified as inaccurate"}) :
                f.n = falseCount
       /\ \E f \in FindingsNamed(findings,
                                  {"Average AI confidence score", "Average confidence score"}) :
            Len(f.s) = 1 /\ IsMeanConfidence(f.s[1])
       /\ \E f \in FindingsNamed(findings, {"Video contains information"}) :
            f.s = <<AccuracyBucket(output.returned)>>

\* C31: synthesizeInsights applied to one True and one False segment returns
\* four key findings, none of them an accuracy bucket
C31_NoBucketInFindings ==
  /\ fn = "synthesizeInsights"
  /\ input = <<AnalyzedOf("True"), AnalyzedOf("False")>>
  /\ output # NoValue
  /\ Len(output.keyFindings) = 4
  /\ FindingsNamed(output.keyFindings, {"Video contains information"}) = {}
  /\ output.keyFindings[2].n = 1
  /\ output.keyFindings[3].n = 1

\* the object a sanitizer's input carries, when it carries one
OracleObject == ParseAnalysis(input)

\* C32: sanitization leaves a valid confidence as it is: when the oracle's
\* confidence is a number c with 0 <= c <= 1, c = 0 included, the judgment has
\* the confidence c, and the default 0.5 stands in only for a confidence that
\* is missing
C32_ValidConfidenceKept ==
  (fn \in Sanitizers /\ output # NoValue /\ OracleObject.ok) =>
    LET given == OracleObject.value.confidence
        kept == output.returned.value.confidence
    IN /\ (given.t = "number" /\ 0 <= given.v /\ given.v <= 100) => kept = given
       /\ (kept = Number(50) /\ given # Number(50)) => given = Undefined

\* C32: analyzeSegmentWithRealKimi applied to a response whose confidence is
\* 0 returns a judgment with confidence 0.5
C32_ZeroBecomesHalf ==
  /\ fn = "analyzeSegmentWithRealKimi"
  /\ output # NoValue
  /\ OracleObject.ok
  /\ OracleObject.value.confidence = Number(0)
  /\ output.returned.ok
  /\ output.returned.value.confidence = Number(50)

\* some step of the list has the status error
HasError(ss) == \E k \in 1..Len(ss) : ss[k].status = "error"

\* C33: once a step is set to error the run makes no further step: no call is
\* in flight, no stage, emission or call can follow and no step changes its
\* status; and in a run of processActualVideo on a reference that is no
\* YouTube URL no transcript fetch and no oracle call is ever made and the
\* steps extract, kimiAnalyze and results stay pending
C33_NothingAfterError ==
  /\ (proc \in Processors /\ HasError(steps)) =>
       /\ pc = "done"
       /\ inflight = NoCall
       /\ ~ENABLED Next
  /\ (proc = "Actual" /\ ~isYouTubeUrl(videoUrl)) =>
       /\ calls = <<>>
       /\ inflight = NoCall
       /\ generated = NoValue /\ transcriptData = NoValue /\ kimiAnalysis = NoValue
       /\ \A k \in 2..Len(steps) : steps[k].status = "pending"

\* C33: processActualVideo has returned for a reference that is no YouTube
\* URL: validate is error, the other three steps are pending and no fetch
\* was made
C33_RejectedReferenceStops ==
  /\ proc = "Actual"
  /\ ~isYouTubeUrl(videoUrl)
  /\ DegradedRun
  /\ Statuses(result.report.steps) = <<"error", "pending", "pending", "pending">>
  /\ calls = <<>>
  /\ Len(progress) = 2

\* the steps of a step list that have the status error
ErrorSteps(ss) == {k \in 1..Len(ss) : ss[k].status = "error"}

\* C34: every report returned through the error handler has exactly one step
\* with the status error, whether a stage threw or the progress callback did,
\* on a processing or on a completed emission
C34_OneErrorStep ==
  DegradedRun => Cardinality(ErrorSteps(result.report.steps)) = 1

\* C34: the progress callback threw on the emission that reported the first
\* step as completed; the handler found no step in progress and returned a
\* report without an error step
C34_NoErrorStepReported ==
  /\ DegradedRun
  /\ error = CallbackError
  /\ ErrorSteps(result.report.steps) = {}
  /\ result.report.steps[1].status = "completed"
  /\ result.report.steps[2].status = "pending"

\* C35: a report processActualVideo returns without going through handleError
\* carries the run's own list of four steps, validate, extract, kimiAnalyze
\* and results, every one completed, and not the empty list that
\* compileKimiResults put into the compiled results
C35_OwnStepsAllCompleted ==
  (proc = "Actual" /\ SuccessfulRun) =>
    /\ finalResults.steps = <<>>
    /\ result.report.steps = steps
    /\ StepNames(result.report.steps) = <<"validate", "extract", "kimiAnalyze", "results">>
    /\ \A k \in 1..Len(result.report.steps) : result.report.steps[k].status = "completed"

\* C35: processActualVideo has returned its compiled results with the four
\* completed steps in place of the empty list
C35_FourCompletedSteps ==
  /\ proc = "Actual"
  /\ SuccessfulRun
  /\ finalResults.steps = <<>>
  /\ Statuses(result.report.steps) = <<"completed", "completed", "completed", "completed">>
  /\ ExceptTime(result.report) = ExceptTime([finalResults EXCEPT !.steps = steps])

\* C36: extractAudioWithRetry and transcribeWithRetry make at most three
\* attempts; an attempt that succeeds is the last one and its result is what
\* the loop returns; the loop throws only once three attempts in a row have
\* failed; a failed attempt that is followed by another has waited a delay
\* first; and the statement after the loop (the return of an unknown duration,
\* the throw of 'Transcription failed completely') is never reached
C36_RetryLoops ==
  proc = "Video" =>
    /\ Len(tried) <= 3
    /\ \A k \in 1..Len(tried) :
         /\ tried[k].of = tried[1].of
         /\ tried[k].ok => k = Len(tried)
         /\ k < Len(tried) => tried[k].after > 0
    /\ error \in {"Audio extraction failed after 3 attempts", "Transcription failed after 3 attempts"}
         <=> (Len(tried) = 3 /\ \A k \in 1..3 : ~tried[k].ok)
    /\ (tried # <<>> /\ ~tried[Len(tried)].ok /\ Len(tried) < 3)
         => pc = "stage" /\ retryCount = Len(tried) /\ tried[Len(tried)].after > 0
    /\ (tried # <<>> /\ tried[Len(tried)].ok /\ tried[1].of = "extractAudio")
         => videoInfo.duration = <<3, 45>> /\ transcriptionResult = NoValue
    /\ (tried # <<>> /\ tried[Len(tried)].ok /\ tried[1].of = "transcribeAudio")
         => transcriptionResult = generateRealisticTranscript(videoUrl)
    /\ error # "Transcription failed completely"
    /\ videoInfo # NoValue => videoInfo.duration # UnknownDuration

\* C36: extractAudioWithRetry has returned the result of its third attempt
\* after two failed ones, having waited 1000 ms and then 2000 ms
C36_ThirdAttemptReturned ==
  /\ proc = "Video"
  /\ pc = "end"
  /\ Len(tried) = 3
  /\ tried[1] = Attempt("extractAudio", FALSE, 1500, 1000)
  /\ tried[2] = Attempt("extractAudio", FALSE, 2000, 2000)
  /\ tried[3] = Attempt("extractAudio", TRUE, 2500, 0)
  /\ videoInfo.duration = <<3, 45>>


\* a failed oracle call is answered by another attempt, or after the third
\* failed attempt by the return of extractClaimsFallback(transcript)
FailedCallRetried ==
  \A out \in Failures :
    ClaimsRespondWith(out) =>
      /\ pc' # "catch"
      /\ IF retryCount < maxRetries
         THEN retryCount' = retryCount + 1 /\ inflight' = inflight /\ pc' = pc
         ELSE segments' = extractClaimsFallback(transcriptionResult) /\ pc' = "end"

\* C37: when the oracle call for claim extraction fails,
\* extractClaimsWithRetry asks again up to two more times and returns
\* extractClaimsFallback(transcript) only after the third failed attempt; it
\* never throws
C37_FailedCallRetriedThenFallback == [][FailedCallRetried]_vars

\* C37: step 4 has ended with the claims that the catch block of
\* extractClaims builds in, which are not those of extractClaimsFallback
C37_BuiltInClaimsReturned ==
  /\ proc = "Video"
  /\ pc = "end"
  /\ steps[cur].step = "analyze"
  /\ currentVideoUrl = videoUrl
  /\ segments = OtherClaims
  /\ segments # extractClaimsFallback(transcriptionResult)


\* C38: loading is true whenever a factCheck or extractClaims request started
\* through the hook is in flight, overlapping requests included, and is false
\* only when none is in flight
C38_LoadingWhileInFlight == requests # <<>> => loading

\* C38: the first of two overlapping requests has settled and loading is
\* false while the other is still in flight
C38_IdleWhileInFlight ==
  /\ ~loading
  /\ Len(requests) = 1


\* source segments in the order of their start times, none overlapping the next
OrderedSource(tsegs) ==
  /\ \A k \in 1..Len(tsegs) : tsegs[k].start <= tsegs[k].end
  /\ \A k \in 1..(Len(tsegs) - 1) : tsegs[k].end <= tsegs[k + 1].start

\* the seconds a timestamp m:ss stands for
SecondsOf(timestamp) == timestamp[1] * 60 + timestamp[2]

NonDecreasing(segs) ==
  \A k \in 1..(Len(segs) - 1) : SecondsOf(segs[k].timestamp) <= SecondsOf(segs[k + 1].timestamp)

\* C39: for source segments ordered by start time and not overlapping, the
\* segments prepareSegments and prepareTranscriptSegments produce carry
\* timestamps that do not decrease along the output, also when a source
\* segment is split into several sentences
C39_TimestampsNonDecreasing ==
  (fn \in {"prepareSegments", "prepareTranscriptSegments"} /\ output # NoValue
     /\ OrderedSource(input.segments))
    => NonDecreasing(output.returned)

\* C39: prepareTranscriptSegments has split a source segment into three
\* sentences and stamped the third later than the sentence of the next
\* source segment
C39_LaterStampComesFirst ==
  /\ fn = "prepareTranscriptSegments"
  /\ output # NoValue
  /\ OrderedSource(input.segments)
  /\ Len(output.returned) = 4
  /\ output.returned[3].timestamp = <<0, 4>>
  /\ output.returned[4].timestamp = <<0, 3>>

====
